---- MODULE Spec2Model ----
(***************************************************************************)
(* IntelliB: the intent / entity resolution layer of the weather bot.      *)
(*                                                                         *)
(* IntentExtractor and EntityExtractor (src/intent_extractor/              *)
(* intent_extractor.js, and the older IntentExtractor kept in src/groq.js) *)
(* are modelled as one caller driving one extractor object at a time: the  *)
(* constructor, the synchronous prefix of an async method, the reply (or   *)
(* failure) of the completion service, and the continuation after the      *)
(* await.  The message handler of the bot (app.post('/api/messages') in    *)
(* src/unnamed/part_000 and src/unnamed/part_001) is modelled with its own *)
(* specification, BotSpec: every inbound activity runs the handler, the    *)
(* runs interleave at their awaits, and all of them share                  *)
(* sessionManager.messages.  BotFairSpec adds that every external call     *)
(* a run awaits eventually returns or fails.                               *)
(*                                                                         *)
(* Strings whose characters the code inspects (location candidates, the    *)
(* registry, city names) are sequences of one-character strings, so that   *)
(* toLowerCase, trim, split, includes and formatCityName are computed as   *)
(* the code computes them.  Strings the code only passes along (messages,  *)
(* intent labels, error messages) are TLA+ strings.                        *)
(*                                                                         *)
(* JavaScript numbers are confidences; they are kept in hundredths         *)
(* (95 stands for 0.95, 500 for 5, -100 for -1), so the interval [0,1] is  *)
(* 0..100 and the literal 0.5 is 50.                                       *)
(***************************************************************************)
EXTENDS Integers, Sequences, FiniteSets, TLC

VARIABLES
  env,              \* process environment: GROQ_API_KEY set? groq-sdk loadable?
  obj,              \* the extractor object in use: its class, source file, groqClient
  addedCities,      \* what addCity pushed onto this.knownCities since the constructor
  pc,               \* where the caller / the async method stands
  args,             \* arguments of the call in progress
  reply,            \* what the completion service answered to the call in progress
  ret,              \* value the call returned, or the error it threw
  extCalls,         \* completion-service requests issued by the call in progress
  handler,          \* the file whose message handler the process runs
  messages,         \* sessionManager.messages, shared by all activities
  turns             \* per inbound activity: where its handler stands and what it holds

vars == <<env, obj, addedCities, pc, args, reply, ret, extCalls, handler, messages, turns>>

\* the state of the message handlers
botVars == <<handler, messages, turns>>

\* the state of an extractor object driven directly
extractorVars == <<obj, addedCities, pc, args, reply, ret, extCalls>>

-----------------------------------------------------------------------------
(* JavaScript string primitives on sequences of characters.                *)

UpperChars ==
  <<"A","B","C","D","E","F","G","H","I","J","K","L","M","N","O","P","Q","R","S","T",
    "U","V","W","X","Y","Z","Á","Ã","É","Í","Ó">>

LowerChars ==
  <<"a","b","c","d","e","f","g","h","i","j","k","l","m","n","o","p","q","r","s","t",
    "u","v","w","x","y","z","á","ã","é","í","ó">>

WhiteSpace == {" ", "\t", "\n"}

toLowerCaseChar(c) ==
  IF \E i \in DOMAIN UpperChars : UpperChars[i] = c
    THEN LowerChars[CHOOSE i \in DOMAIN UpperChars : UpperChars[i] = c]
    ELSE c

toUpperCaseChar(c) ==
  IF \E i \in DOMAIN LowerChars : LowerChars[i] = c
    THEN UpperChars[CHOOSE i \in DOMAIN LowerChars : LowerChars[i] = c]
    ELSE c

\* String.prototype.toLowerCase
toLowerCase(s) == [i \in 1..Len(s) |-> toLowerCaseChar(s[i])]

\* String.prototype.toUpperCase: a character whose upper case is several characters
\* (Unicode SpecialCasing: 'ß' gives 'SS') lengthens the string
RECURSIVE toUpperCase(_)
toUpperCase(s) ==
  IF s = <<>> THEN <<>>
  ELSE (IF Head(s) = "ß" THEN <<"S", "S">> ELSE <<toUpperCaseChar(Head(s))>>)
         \o toUpperCase(Tail(s))

\* String.prototype.trim: drops leading and trailing white space only
trim(s) ==
  LET keep == {i \in 1..Len(s) : s[i] \notin WhiteSpace}
  IN  IF keep = {} THEN <<>>
      ELSE SubSeq(s, CHOOSE i \in keep : \A j \in keep : i <= j,
                     CHOOSE i \in keep : \A j \in keep : i >= j)

\* String.prototype.split(' '): every single space separates, so "a  b" has an empty word
RECURSIVE split(_)
split(s) ==
  LET sp == {i \in 1..Len(s) : s[i] = " "}
  IN  IF sp = {} THEN <<s>>
      ELSE LET i == CHOOSE k \in sp : \A j \in sp : k <= j
           IN  <<SubSeq(s, 1, i - 1)>> \o split(SubSeq(s, i + 1, Len(s)))

\* Array.prototype.join(' ')
RECURSIVE join(_)
join(ws) ==
  IF Len(ws) = 0 THEN <<>>
  ELSE IF Len(ws) = 1 THEN ws[1]
  ELSE ws[1] \o <<" ">> \o join(Tail(ws))

\* String.prototype.includes: needle occurs in hay as a contiguous substring
strIncludes(hay, needle) ==
  \E i \in 0..(Len(hay) - Len(needle)) : SubSeq(hay, i + 1, i + Len(needle)) = needle

\* Array.prototype.includes
arrIncludes(arr, x) == \E i \in DOMAIN arr : arr[i] = x

-----------------------------------------------------------------------------
(* The registry the EntityExtractor constructor builds.                    *)

\* this.knownCities as the constructor builds it (each entry a sequence of characters)
InitKnownCities ==
  <<
    <<"l","o","n","d","o","n">>,
    <<"p","a","r","i","s">>,
    <<"t","o","k","y","o">>,
    <<"n","e","w"," ","y","o","r","k">>,
    <<"l","o","s"," ","a","n","g","e","l","e","s">>,
    <<"c","h","i","c","a","g","o">>,
    <<"h","o","u","s","t","o","n">>,
    <<"p","h","i","l","a","d","e","l","p","h","i","a">>,
    <<"p","h","o","e","n","i","x">>,
    <<"s","a","n"," ","a","n","t","o","n","i","o">>,
    <<"s","a","n"," ","d","i","e","g","o">>,
    <<"d","a","l","l","a","s">>,
    <<"s","a","n"," ","j","o","s","e">>,
    <<"a","u","s","t","i","n">>,
    <<"j","a","c","k","s","o","n","v","i","l","l","e">>,
    <<"f","o","r","t"," ","w","o","r","t","h">>,
    <<"c","o","l","u","m","b","u","s">>,
    <<"c","h","a","r","l","o","t","t","e">>,
    <<"s","a","n"," ","f","r","a","n","c","i","s","c","o">>,
    <<"i","n","d","i","a","n","a","p","o","l","i","s">>,
    <<"s","e","a","t","t","l","e">>,
    <<"d","e","n","v","e","r">>,
    <<"w","a","s","h","i","n","g","t","o","n">>,
    <<"b","o","s","t","o","n">>,
    <<"e","l"," ","p","a","s","o">>,
    <<"d","e","t","r","o","i","t">>,
    <<"n","a","s","h","v","i","l","l","e">>,
    <<"p","o","r","t","l","a","n","d">>,
    <<"m","e","m","p","h","i","s">>,
    <<"o","k","l","a","h","o","m","a"," ","c","i","t","y">>,
    <<"l","a","s"," ","v","e","g","a","s">>,
    <<"l","o","u","i","s","v","i","l","l","e">>,
    <<"b","a","l","t","i","m","o","r","e">>,
    <<"m","i","l","w","a","u","k","e","e">>,
    <<"a","l","b","u","q","u","e","r","q","u","e">>,
    <<"t","u","c","s","o","n">>,
    <<"f","r","e","s","n","o">>,
    <<"m","e","s","a">>,
    <<"s","a","c","r","a","m","e","n","t","o">>,
    <<"a","t","l","a","n","t","a">>,
    <<"k","a","n","s","a","s"," ","c","i","t","y">>,
    <<"c","o","l","o","r","a","d","o"," ","s","p","r","i","n","g","s">>,
    <<"m","i","a","m","i">>,
    <<"r","a","l","e","i","g","h">>,
    <<"o","m","a","h","a">>,
    <<"l","o","n","g"," ","b","e","a","c","h">>,
    <<"v","i","r","g","i","n","i","a"," ","b","e","a","c","h">>,
    <<"o","a","k","l","a","n","d">>,
    <<"m","i","n","n","e","a","p","o","l","i","s">>,
    <<"t","u","l","s","a">>,
    <<"a","r","l","i","n","g","t","o","n">>,
    <<"t","a","m","p","a">>,
    <<"n","e","w"," ","o","r","l","e","a","n","s">>,
    <<"w","i","c","h","i","t","a">>,
    <<"b","e","r","l","i","n">>,
    <<"m","a","d","r","i","d">>,
    <<"r","o","m","e">>,
    <<"a","m","s","t","e","r","d","a","m">>,
    <<"v","i","e","n","n","a">>,
    <<"z","u","r","i","c","h">>,
    <<"s","t","o","c","k","h","o","l","m">>,
    <<"o","s","l","o">>,
    <<"c","o","p","e","n","h","a","g","e","n">>,
    <<"h","e","l","s","i","n","k","i">>,
    <<"d","u","b","l","i","n">>,
    <<"l","i","s","b","o","n">>,
    <<"p","r","a","g","u","e">>,
    <<"b","u","d","a","p","e","s","t">>,
    <<"w","a","r","s","a","w">>,
    <<"m","o","s","c","o","w">>,
    <<"i","s","t","a","n","b","u","l">>,
    <<"a","t","h","e","n","s">>,
    <<"c","a","i","r","o">>,
    <<"d","u","b","a","i">>,
    <<"m","u","m","b","a","i">>,
    <<"d","e","l","h","i">>,
    <<"b","a","n","g","a","l","o","r","e">>,
    <<"c","h","e","n","n","a","i">>,
    <<"k","o","l","k","a","t","a">>,
    <<"h","y","d","e","r","a","b","a","d">>,
    <<"p","u","n","e">>,
    <<"a","h","m","e","d","a","b","a","d">>,
    <<"j","a","i","p","u","r">>,
    <<"s","u","r","a","t">>,
    <<"b","e","i","j","i","n","g">>,
    <<"s","h","a","n","g","h","a","i">>,
    <<"g","u","a","n","g","z","h","o","u">>,
    <<"s","h","e","n","z","h","e","n">>,
    <<"c","h","e","n","g","d","u">>,
    <<"h","a","n","g","z","h","o","u">>,
    <<"w","u","h","a","n">>,
    <<"x","i","'","a","n">>,
    <<"n","a","n","j","i","n","g">>,
    <<"t","i","a","n","j","i","n">>,
    <<"s","y","d","n","e","y">>,
    <<"m","e","l","b","o","u","r","n","e">>,
    <<"b","r","i","s","b","a","n","e">>,
    <<"p","e","r","t","h">>,
    <<"a","d","e","l","a","i","d","e">>,
    <<"g","o","l","d"," ","c","o","a","s","t">>,
    <<"n","e","w","c","a","s","t","l","e">>,
    <<"c","a","n","b","e","r","r","a">>,
    <<"t","o","r","o","n","t","o">>,
    <<"m","o","n","t","r","e","a","l">>,
    <<"v","a","n","c","o","u","v","e","r">>,
    <<"c","a","l","g","a","r","y">>,
    <<"e","d","m","o","n","t","o","n">>,
    <<"o","t","t","a","w","a">>,
    <<"w","i","n","n","i","p","e","g">>,
    <<"q","u","e","b","e","c"," ","c","i","t","y">>,
    <<"h","a","m","i","l","t","o","n">>,
    <<"k","i","t","c","h","e","n","e","r">>,
    <<"l","o","n","d","o","n">>,
    <<"h","a","l","i","f","a","x">>,
    <<"m","e","x","i","c","o"," ","c","i","t","y">>,
    <<"g","u","a","d","a","l","a","j","a","r","a">>,
    <<"m","o","n","t","e","r","r","e","y">>,
    <<"p","u","e","b","l","a">>,
    <<"t","i","j","u","a","n","a">>,
    <<"l","e","ó","n">>,
    <<"j","u","á","r","e","z">>,
    <<"z","a","p","o","p","a","n">>,
    <<"m","é","r","i","d","a">>,
    <<"s","a","n"," ","l","u","i","s"," ","p","o","t","o","s","í">>,
    <<"a","g","u","a","s","c","a","l","i","e","n","t","e","s">>,
    <<"h","e","r","m","o","s","i","l","l","o">>,
    <<"s","a","l","t","i","l","l","o">>,
    <<"m","e","x","i","c","a","l","i">>,
    <<"c","u","l","i","a","c","á","n">>,
    <<"c","h","i","h","u","a","h","u","a">>,
    <<"m","o","r","e","l","i","a">>,
    <<"x","a","l","a","p","a">>,
    <<"t","a","m","p","i","c","o">>,
    <<"r","e","y","n","o","s","a">>,
    <<"t","u","x","t","l","a">>,
    <<"a","l","e","x","a","n","d","r","i","a">>,
    <<"g","i","z","a">>,
    <<"a","s","w","a","n">>,
    <<"l","u","x","o","r">>,
    <<"h","u","r","g","h","a","d","a">>,
    <<"s","h","a","r","m"," ","e","l"," ","s","h","e","i","k","h">>,
    <<"i","s","m","a","i","l","i","a">>,
    <<"s","u","e","z">>,
    <<"p","o","r","t"," ","s","a","i","d">>,
    <<"m","a","n","s","o","u","r","a">>,
    <<"t","a","n","t","a">>,
    <<"z","a","g","a","z","i","g">>,
    <<"d","a","m","a","n","h","u","r">>,
    <<"b","e","n","i"," ","s","u","e","f">>,
    <<"m","i","n","y","a">>,
    <<"a","s","y","u","t">>,
    <<"s","o","h","a","g">>,
    <<"q","e","n","a">>,
    <<"k","o","m"," ","o","m","b","o">>,
    <<"e","d","f","u">>
  >>

\* this.knownCountries; the constructor builds it and nothing writes it afterwards
knownCountries ==
  <<
    <<"u","n","i","t","e","d"," ","s","t","a","t","e","s">>,
    <<"u","s","a">>,
    <<"a","m","e","r","i","c","a">>,
    <<"u","n","i","t","e","d"," ","k","i","n","g","d","o","m">>,
    <<"u","k">>,
    <<"e","n","g","l","a","n","d">>,
    <<"b","r","i","t","a","i","n">>,
    <<"f","r","a","n","c","e">>,
    <<"g","e","r","m","a","n","y">>,
    <<"i","t","a","l","y">>,
    <<"s","p","a","i","n">>,
    <<"p","o","r","t","u","g","a","l">>,
    <<"n","e","t","h","e","r","l","a","n","d","s">>,
    <<"b","e","l","g","i","u","m">>,
    <<"s","w","i","t","z","e","r","l","a","n","d">>,
    <<"a","u","s","t","r","i","a">>,
    <<"s","w","e","d","e","n">>,
    <<"n","o","r","w","a","y">>,
    <<"d","e","n","m","a","r","k">>,
    <<"f","i","n","l","a","n","d">>,
    <<"i","r","e","l","a","n","d">>,
    <<"p","o","l","a","n","d">>,
    <<"c","z","e","c","h"," ","r","e","p","u","b","l","i","c">>,
    <<"h","u","n","g","a","r","y">>,
    <<"r","o","m","a","n","i","a">>,
    <<"b","u","l","g","a","r","i","a">>,
    <<"g","r","e","e","c","e">>,
    <<"t","u","r","k","e","y">>,
    <<"r","u","s","s","i","a">>,
    <<"u","k","r","a","i","n","e">>,
    <<"b","e","l","a","r","u","s">>,
    <<"l","i","t","h","u","a","n","i","a">>,
    <<"l","a","t","v","i","a">>,
    <<"e","s","t","o","n","i","a">>,
    <<"c","r","o","a","t","i","a">>,
    <<"s","e","r","b","i","a">>,
    <<"b","o","s","n","i","a">>,
    <<"m","o","n","t","e","n","e","g","r","o">>,
    <<"a","l","b","a","n","i","a">>,
    <<"m","a","c","e","d","o","n","i","a">>,
    <<"s","l","o","v","e","n","i","a">>,
    <<"s","l","o","v","a","k","i","a">>,
    <<"c","h","i","n","a">>,
    <<"j","a","p","a","n">>,
    <<"s","o","u","t","h"," ","k","o","r","e","a">>,
    <<"n","o","r","t","h"," ","k","o","r","e","a">>,
    <<"i","n","d","i","a">>,
    <<"p","a","k","i","s","t","a","n">>,
    <<"b","a","n","g","l","a","d","e","s","h">>,
    <<"s","r","i"," ","l","a","n","k","a">>,
    <<"n","e","p","a","l">>,
    <<"b","h","u","t","a","n">>,
    <<"m","y","a","n","m","a","r">>,
    <<"t","h","a","i","l","a","n","d">>,
    <<"v","i","e","t","n","a","m">>,
    <<"l","a","o","s">>,
    <<"c","a","m","b","o","d","i","a">>,
    <<"m","a","l","a","y","s","i","a">>,
    <<"s","i","n","g","a","p","o","r","e">>,
    <<"i","n","d","o","n","e","s","i","a">>,
    <<"p","h","i","l","i","p","p","i","n","e","s">>,
    <<"b","r","u","n","e","i">>,
    <<"a","u","s","t","r","a","l","i","a">>,
    <<"n","e","w"," ","z","e","a","l","a","n","d">>,
    <<"c","a","n","a","d","a">>,
    <<"m","e","x","i","c","o">>,
    <<"b","r","a","z","i","l">>,
    <<"a","r","g","e","n","t","i","n","a">>,
    <<"c","h","i","l","e">>,
    <<"p","e","r","u">>,
    <<"c","o","l","o","m","b","i","a">>,
    <<"v","e","n","e","z","u","e","l","a">>,
    <<"e","c","u","a","d","o","r">>,
    <<"b","o","l","i","v","i","a">>,
    <<"u","r","u","g","u","a","y">>,
    <<"p","a","r","a","g","u","a","y">>,
    <<"e","g","y","p","t">>,
    <<"l","i","b","y","a">>,
    <<"t","u","n","i","s","i","a">>,
    <<"a","l","g","e","r","i","a">>,
    <<"m","o","r","o","c","c","o">>,
    <<"s","u","d","a","n">>,
    <<"e","t","h","i","o","p","i","a">>,
    <<"k","e","n","y","a">>,
    <<"t","a","n","z","a","n","i","a">>,
    <<"u","g","a","n","d","a">>,
    <<"r","w","a","n","d","a">>,
    <<"b","u","r","u","n","d","i">>,
    <<"s","o","m","a","l","i","a">>,
    <<"d","j","i","b","o","u","t","i">>,
    <<"e","r","i","t","r","e","a">>,
    <<"s","o","u","t","h"," ","a","f","r","i","c","a">>,
    <<"n","a","m","i","b","i","a">>,
    <<"b","o","t","s","w","a","n","a">>,
    <<"z","i","m","b","a","b","w","e">>,
    <<"z","a","m","b","i","a">>,
    <<"m","a","l","a","w","i">>,
    <<"m","o","z","a","m","b","i","q","u","e">>,
    <<"m","a","d","a","g","a","s","c","a","r">>,
    <<"m","a","u","r","i","t","i","u","s">>,
    <<"s","e","y","c","h","e","l","l","e","s">>,
    <<"c","o","m","o","r","o","s">>,
    <<"g","h","a","n","a">>,
    <<"n","i","g","e","r","i","a">>,
    <<"s","e","n","e","g","a","l">>,
    <<"m","a","l","i">>,
    <<"b","u","r","k","i","n","a"," ","f","a","s","o">>,
    <<"n","i","g","e","r">>,
    <<"c","h","a","d">>,
    <<"c","a","m","e","r","o","o","n">>,
    <<"g","a","b","o","n">>,
    <<"c","o","n","g","o">>,
    <<"d","e","m","o","c","r","a","t","i","c"," ","r","e","p","u","b","l","i","c"," ","o","f"," ","c","o","n","g","o">>,
    <<"c","e","n","t","r","a","l"," ","a","f","r","i","c","a","n"," ","r","e","p","u","b","l","i","c">>,
    <<"e","q","u","a","t","o","r","i","a","l"," ","g","u","i","n","e","a">>,
    <<"s","a","o"," ","t","o","m","e"," ","a","n","d"," ","p","r","i","n","c","i","p","e">>,
    <<"c","a","p","e"," ","v","e","r","d","e">>,
    <<"g","u","i","n","e","a","-","b","i","s","s","a","u">>,
    <<"g","u","i","n","e","a">>,
    <<"s","i","e","r","r","a"," ","l","e","o","n","e">>,
    <<"l","i","b","e","r","i","a">>,
    <<"i","v","o","r","y"," ","c","o","a","s","t">>,
    <<"t","o","g","o">>,
    <<"b","e","n","i","n">>,
    <<"i","r","a","n">>,
    <<"i","r","a","q">>,
    <<"s","y","r","i","a">>,
    <<"l","e","b","a","n","o","n">>,
    <<"j","o","r","d","a","n">>,
    <<"i","s","r","a","e","l">>,
    <<"p","a","l","e","s","t","i","n","e">>,
    <<"s","a","u","d","i"," ","a","r","a","b","i","a">>,
    <<"y","e","m","e","n">>,
    <<"o","m","a","n">>,
    <<"u","a","e">>,
    <<"u","n","i","t","e","d"," ","a","r","a","b"," ","e","m","i","r","a","t","e","s">>,
    <<"q","a","t","a","r">>,
    <<"b","a","h","r","a","i","n">>,
    <<"k","u","w","a","i","t">>,
    <<"a","f","g","h","a","n","i","s","t","a","n">>,
    <<"u","z","b","e","k","i","s","t","a","n">>,
    <<"k","a","z","a","k","h","s","t","a","n">>,
    <<"k","y","r","g","y","z","s","t","a","n">>,
    <<"t","a","j","i","k","i","s","t","a","n">>,
    <<"t","u","r","k","m","e","n","i","s","t","a","n">>,
    <<"m","o","n","g","o","l","i","a">>,
    <<"a","r","m","e","n","i","a">>,
    <<"g","e","o","r","g","i","a">>,
    <<"a","z","e","r","b","a","i","j","a","n">>
  >>

\* this.countryCapitals as <<key, capital>> pairs in insertion order; nothing writes it
\* after the constructor
countryCapitals ==
  <<
    <<<<"u","n","i","t","e","d"," ","s","t","a","t","e","s">>, <<"W","a","s","h","i","n","g","t","o","n"," ","D",".","C",".">>>>,
    <<<<"u","s","a">>, <<"W","a","s","h","i","n","g","t","o","n"," ","D",".","C",".">>>>,
    <<<<"a","m","e","r","i","c","a">>, <<"W","a","s","h","i","n","g","t","o","n"," ","D",".","C",".">>>>,
    <<<<"u","n","i","t","e","d"," ","k","i","n","g","d","o","m">>, <<"L","o","n","d","o","n">>>>,
    <<<<"u","k">>, <<"L","o","n","d","o","n">>>>,
    <<<<"e","n","g","l","a","n","d">>, <<"L","o","n","d","o","n">>>>,
    <<<<"b","r","i","t","a","i","n">>, <<"L","o","n","d","o","n">>>>,
    <<<<"f","r","a","n","c","e">>, <<"P","a","r","i","s">>>>,
    <<<<"g","e","r","m","a","n","y">>, <<"B","e","r","l","i","n">>>>,
    <<<<"i","t","a","l","y">>, <<"R","o","m","e">>>>,
    <<<<"s","p","a","i","n">>, <<"M","a","d","r","i","d">>>>,
    <<<<"p","o","r","t","u","g","a","l">>, <<"L","i","s","b","o","n">>>>,
    <<<<"n","e","t","h","e","r","l","a","n","d","s">>, <<"A","m","s","t","e","r","d","a","m">>>>,
    <<<<"b","e","l","g","i","u","m">>, <<"B","r","u","s","s","e","l","s">>>>,
    <<<<"s","w","i","t","z","e","r","l","a","n","d">>, <<"B","e","r","n">>>>,
    <<<<"a","u","s","t","r","i","a">>, <<"V","i","e","n","n","a">>>>,
    <<<<"s","w","e","d","e","n">>, <<"S","t","o","c","k","h","o","l","m">>>>,
    <<<<"n","o","r","w","a","y">>, <<"O","s","l","o">>>>,
    <<<<"d","e","n","m","a","r","k">>, <<"C","o","p","e","n","h","a","g","e","n">>>>,
    <<<<"f","i","n","l","a","n","d">>, <<"H","e","l","s","i","n","k","i">>>>,
    <<<<"i","r","e","l","a","n","d">>, <<"D","u","b","l","i","n">>>>,
    <<<<"p","o","l","a","n","d">>, <<"W","a","r","s","a","w">>>>,
    <<<<"c","z","e","c","h"," ","r","e","p","u","b","l","i","c">>, <<"P","r","a","g","u","e">>>>,
    <<<<"h","u","n","g","a","r","y">>, <<"B","u","d","a","p","e","s","t">>>>,
    <<<<"r","o","m","a","n","i","a">>, <<"B","u","c","h","a","r","e","s","t">>>>,
    <<<<"b","u","l","g","a","r","i","a">>, <<"S","o","f","i","a">>>>,
    <<<<"g","r","e","e","c","e">>, <<"A","t","h","e","n","s">>>>,
    <<<<"t","u","r","k","e","y">>, <<"A","n","k","a","r","a">>>>,
    <<<<"r","u","s","s","i","a">>, <<"M","o","s","c","o","w">>>>,
    <<<<"u","k","r","a","i","n","e">>, <<"K","y","i","v">>>>,
    <<<<"b","e","l","a","r","u","s">>, <<"M","i","n","s","k">>>>,
    <<<<"l","i","t","h","u","a","n","i","a">>, <<"V","i","l","n","i","u","s">>>>,
    <<<<"l","a","t","v","i","a">>, <<"R","i","g","a">>>>,
    <<<<"e","s","t","o","n","i","a">>, <<"T","a","l","l","i","n","n">>>>,
    <<<<"c","r","o","a","t","i","a">>, <<"Z","a","g","r","e","b">>>>,
    <<<<"s","e","r","b","i","a">>, <<"B","e","l","g","r","a","d","e">>>>,
    <<<<"b","o","s","n","i","a">>, <<"S","a","r","a","j","e","v","o">>>>,
    <<<<"m","o","n","t","e","n","e","g","r","o">>, <<"P","o","d","g","o","r","i","c","a">>>>,
    <<<<"a","l","b","a","n","i","a">>, <<"T","i","r","a","n","a">>>>,
    <<<<"m","a","c","e","d","o","n","i","a">>, <<"S","k","o","p","j","e">>>>,
    <<<<"s","l","o","v","e","n","i","a">>, <<"L","j","u","b","l","j","a","n","a">>>>,
    <<<<"s","l","o","v","a","k","i","a">>, <<"B","r","a","t","i","s","l","a","v","a">>>>,
    <<<<"c","h","i","n","a">>, <<"B","e","i","j","i","n","g">>>>,
    <<<<"j","a","p","a","n">>, <<"T","o","k","y","o">>>>,
    <<<<"s","o","u","t","h"," ","k","o","r","e","a">>, <<"S","e","o","u","l">>>>,
    <<<<"n","o","r","t","h"," ","k","o","r","e","a">>, <<"P","y","o","n","g","y","a","n","g">>>>,
    <<<<"i","n","d","i","a">>, <<"N","e","w"," ","D","e","l","h","i">>>>,
    <<<<"p","a","k","i","s","t","a","n">>, <<"I","s","l","a","m","a","b","a","d">>>>,
    <<<<"b","a","n","g","l","a","d","e","s","h">>, <<"D","h","a","k","a">>>>,
    <<<<"s","r","i"," ","l","a","n","k","a">>, <<"C","o","l","o","m","b","o">>>>,
    <<<<"n","e","p","a","l">>, <<"K","a","t","h","m","a","n","d","u">>>>,
    <<<<"b","h","u","t","a","n">>, <<"T","h","i","m","p","h","u">>>>,
    <<<<"m","y","a","n","m","a","r">>, <<"N","a","y","p","y","i","d","a","w">>>>,
    <<<<"t","h","a","i","l","a","n","d">>, <<"B","a","n","g","k","o","k">>>>,
    <<<<"v","i","e","t","n","a","m">>, <<"H","a","n","o","i">>>>,
    <<<<"l","a","o","s">>, <<"V","i","e","n","t","i","a","n","e">>>>,
    <<<<"c","a","m","b","o","d","i","a">>, <<"P","h","n","o","m"," ","P","e","n","h">>>>,
    <<<<"m","a","l","a","y","s","i","a">>, <<"K","u","a","l","a"," ","L","u","m","p","u","r">>>>,
    <<<<"s","i","n","g","a","p","o","r","e">>, <<"S","i","n","g","a","p","o","r","e">>>>,
    <<<<"i","n","d","o","n","e","s","i","a">>, <<"J","a","k","a","r","t","a">>>>,
    <<<<"p","h","i","l","i","p","p","i","n","e","s">>, <<"M","a","n","i","l","a">>>>,
    <<<<"b","r","u","n","e","i">>, <<"B","a","n","d","a","r"," ","S","e","r","i"," ","B","e","g","a","w","a","n">>>>,
    <<<<"a","u","s","t","r","a","l","i","a">>, <<"C","a","n","b","e","r","r","a">>>>,
    <<<<"n","e","w"," ","z","e","a","l","a","n","d">>, <<"W","e","l","l","i","n","g","t","o","n">>>>,
    <<<<"c","a","n","a","d","a">>, <<"O","t","t","a","w","a">>>>,
    <<<<"m","e","x","i","c","o">>, <<"M","e","x","i","c","o"," ","C","i","t","y">>>>,
    <<<<"b","r","a","z","i","l">>, <<"B","r","a","s","í","l","i","a">>>>,
    <<<<"a","r","g","e","n","t","i","n","a">>, <<"B","u","e","n","o","s"," ","A","i","r","e","s">>>>,
    <<<<"c","h","i","l","e">>, <<"S","a","n","t","i","a","g","o">>>>,
    <<<<"p","e","r","u">>, <<"L","i","m","a">>>>,
    <<<<"c","o","l","o","m","b","i","a">>, <<"B","o","g","o","t","á">>>>,
    <<<<"v","e","n","e","z","u","e","l","a">>, <<"C","a","r","a","c","a","s">>>>,
    <<<<"e","c","u","a","d","o","r">>, <<"Q","u","i","t","o">>>>,
    <<<<"b","o","l","i","v","i","a">>, <<"S","u","c","r","e">>>>,
    <<<<"u","r","u","g","u","a","y">>, <<"M","o","n","t","e","v","i","d","e","o">>>>,
    <<<<"p","a","r","a","g","u","a","y">>, <<"A","s","u","n","c","i","ó","n">>>>,
    <<<<"e","g","y","p","t">>, <<"C","a","i","r","o">>>>,
    <<<<"l","i","b","y","a">>, <<"T","r","i","p","o","l","i">>>>,
    <<<<"t","u","n","i","s","i","a">>, <<"T","u","n","i","s">>>>,
    <<<<"a","l","g","e","r","i","a">>, <<"A","l","g","i","e","r","s">>>>,
    <<<<"m","o","r","o","c","c","o">>, <<"R","a","b","a","t">>>>,
    <<<<"s","u","d","a","n">>, <<"K","h","a","r","t","o","u","m">>>>,
    <<<<"e","t","h","i","o","p","i","a">>, <<"A","d","d","i","s"," ","A","b","a","b","a">>>>,
    <<<<"k","e","n","y","a">>, <<"N","a","i","r","o","b","i">>>>,
    <<<<"t","a","n","z","a","n","i","a">>, <<"D","o","d","o","m","a">>>>,
    <<<<"u","g","a","n","d","a">>, <<"K","a","m","p","a","l","a">>>>,
    <<<<"r","w","a","n","d","a">>, <<"K","i","g","a","l","i">>>>,
    <<<<"b","u","r","u","n","d","i">>, <<"G","i","t","e","g","a">>>>,
    <<<<"s","o","m","a","l","i","a">>, <<"M","o","g","a","d","i","s","h","u">>>>,
    <<<<"d","j","i","b","o","u","t","i">>, <<"D","j","i","b","o","u","t","i">>>>,
    <<<<"e","r","i","t","r","e","a">>, <<"A","s","m","a","r","a">>>>,
    <<<<"s","o","u","t","h"," ","a","f","r","i","c","a">>, <<"C","a","p","e"," ","T","o","w","n">>>>,
    <<<<"n","a","m","i","b","i","a">>, <<"W","i","n","d","h","o","e","k">>>>,
    <<<<"b","o","t","s","w","a","n","a">>, <<"G","a","b","o","r","o","n","e">>>>,
    <<<<"z","i","m","b","a","b","w","e">>, <<"H","a","r","a","r","e">>>>,
    <<<<"z","a","m","b","i","a">>, <<"L","u","s","a","k","a">>>>,
    <<<<"m","a","l","a","w","i">>, <<"L","i","l","o","n","g","w","e">>>>,
    <<<<"m","o","z","a","m","b","i","q","u","e">>, <<"M","a","p","u","t","o">>>>,
    <<<<"m","a","d","a","g","a","s","c","a","r">>, <<"A","n","t","a","n","a","n","a","r","i","v","o">>>>,
    <<<<"m","a","u","r","i","t","i","u","s">>, <<"P","o","r","t"," ","L","o","u","i","s">>>>,
    <<<<"s","e","y","c","h","e","l","l","e","s">>, <<"V","i","c","t","o","r","i","a">>>>,
    <<<<"c","o","m","o","r","o","s">>, <<"M","o","r","o","n","i">>>>,
    <<<<"g","h","a","n","a">>, <<"A","c","c","r","a">>>>,
    <<<<"n","i","g","e","r","i","a">>, <<"A","b","u","j","a">>>>,
    <<<<"s","e","n","e","g","a","l">>, <<"D","a","k","a","r">>>>,
    <<<<"m","a","l","i">>, <<"B","a","m","a","k","o">>>>,
    <<<<"b","u","r","k","i","n","a"," ","f","a","s","o">>, <<"O","u","a","g","a","d","o","u","g","o","u">>>>,
    <<<<"n","i","g","e","r">>, <<"N","i","a","m","e","y">>>>,
    <<<<"c","h","a","d">>, <<"N","'","D","j","a","m","e","n","a">>>>,
    <<<<"c","a","m","e","r","o","o","n">>, <<"Y","a","o","u","n","d","é">>>>,
    <<<<"g","a","b","o","n">>, <<"L","i","b","r","e","v","i","l","l","e">>>>,
    <<<<"c","o","n","g","o">>, <<"B","r","a","z","z","a","v","i","l","l","e">>>>,
    <<<<"d","e","m","o","c","r","a","t","i","c"," ","r","e","p","u","b","l","i","c"," ","o","f"," ","c","o","n","g","o">>, <<"K","i","n","s","h","a","s","a">>>>,
    <<<<"c","e","n","t","r","a","l"," ","a","f","r","i","c","a","n"," ","r","e","p","u","b","l","i","c">>, <<"B","a","n","g","u","i">>>>,
    <<<<"e","q","u","a","t","o","r","i","a","l"," ","g","u","i","n","e","a">>, <<"M","a","l","a","b","o">>>>,
    <<<<"s","a","o"," ","t","o","m","e"," ","a","n","d"," ","p","r","i","n","c","i","p","e">>, <<"S","ã","o"," ","T","o","m","é">>>>,
    <<<<"c","a","p","e"," ","v","e","r","d","e">>, <<"P","r","a","i","a">>>>,
    <<<<"g","u","i","n","e","a","-","b","i","s","s","a","u">>, <<"B","i","s","s","a","u">>>>,
    <<<<"g","u","i","n","e","a">>, <<"C","o","n","a","k","r","y">>>>,
    <<<<"s","i","e","r","r","a"," ","l","e","o","n","e">>, <<"F","r","e","e","t","o","w","n">>>>,
    <<<<"l","i","b","e","r","i","a">>, <<"M","o","n","r","o","v","i","a">>>>,
    <<<<"i","v","o","r","y"," ","c","o","a","s","t">>, <<"Y","a","m","o","u","s","s","o","u","k","r","o">>>>,
    <<<<"t","o","g","o">>, <<"L","o","m","é">>>>,
    <<<<"b","e","n","i","n">>, <<"P","o","r","t","o","-","N","o","v","o">>>>,
    <<<<"i","r","a","n">>, <<"T","e","h","r","a","n">>>>,
    <<<<"i","r","a","q">>, <<"B","a","g","h","d","a","d">>>>,
    <<<<"s","y","r","i","a">>, <<"D","a","m","a","s","c","u","s">>>>,
    <<<<"l","e","b","a","n","o","n">>, <<"B","e","i","r","u","t">>>>,
    <<<<"j","o","r","d","a","n">>, <<"A","m","m","a","n">>>>,
    <<<<"i","s","r","a","e","l">>, <<"J","e","r","u","s","a","l","e","m">>>>,
    <<<<"p","a","l","e","s","t","i","n","e">>, <<"R","a","m","a","l","l","a","h">>>>,
    <<<<"s","a","u","d","i"," ","a","r","a","b","i","a">>, <<"R","i","y","a","d","h">>>>,
    <<<<"y","e","m","e","n">>, <<"S","a","n","a","'","a">>>>,
    <<<<"o","m","a","n">>, <<"M","u","s","c","a","t">>>>,
    <<<<"u","a","e">>, <<"A","b","u"," ","D","h","a","b","i">>>>,
    <<<<"u","n","i","t","e","d"," ","a","r","a","b"," ","e","m","i","r","a","t","e","s">>, <<"A","b","u"," ","D","h","a","b","i">>>>,
    <<<<"q","a","t","a","r">>, <<"D","o","h","a">>>>,
    <<<<"b","a","h","r","a","i","n">>, <<"M","a","n","a","m","a">>>>,
    <<<<"k","u","w","a","i","t">>, <<"K","u","w","a","i","t"," ","C","i","t","y">>>>,
    <<<<"a","f","g","h","a","n","i","s","t","a","n">>, <<"K","a","b","u","l">>>>,
    <<<<"u","z","b","e","k","i","s","t","a","n">>, <<"T","a","s","h","k","e","n","t">>>>,
    <<<<"k","a","z","a","k","h","s","t","a","n">>, <<"N","u","r","-","S","u","l","t","a","n">>>>,
    <<<<"k","y","r","g","y","z","s","t","a","n">>, <<"B","i","s","h","k","e","k">>>>,
    <<<<"t","a","j","i","k","i","s","t","a","n">>, <<"D","u","s","h","a","n","b","e">>>>,
    <<<<"t","u","r","k","m","e","n","i","s","t","a","n">>, <<"A","s","h","g","a","b","a","t">>>>,
    <<<<"m","o","n","g","o","l","i","a">>, <<"U","l","a","a","n","b","a","a","t","a","r">>>>,
    <<<<"a","r","m","e","n","i","a">>, <<"Y","e","r","e","v","a","n">>>>,
    <<<<"g","e","o","r","g","i","a">>, <<"T","b","i","l","i","s","i">>>>,
    <<<<"a","z","e","r","b","a","i","j","a","n">>, <<"B","a","k","u">>>>
  >>

\* this.knownCities: the constructor's list followed by what addCity pushed
knownCities == InitKnownCities \o addedCities

-----------------------------------------------------------------------------
(* EntityExtractor: the synchronous lookups.                               *)

\* validateCityStrict(cityName): exact match only
validateCityStrict(cityName) ==
  LET normalizedCity == trim(toLowerCase(cityName))
  IN  arrIncludes(knownCities, normalizedCity)

\* validateCity(cityName): exact match; a candidate of several words is decided by the
\* all-words test alone (the function returns there); a single word by containment
validateCity(cityName) ==
  LET normalizedCity == trim(toLowerCase(cityName))
      cityWords == split(normalizedCity)
  IN  IF arrIncludes(knownCities, normalizedCity) THEN TRUE
      ELSE IF Len(cityWords) > 1
        THEN \E k \in DOMAIN knownCities :
               LET knownWords == split(knownCities[k])
               IN  \A w \in DOMAIN cityWords : arrIncludes(knownWords, cityWords[w])
        ELSE \E k \in DOMAIN knownCities :
               \/ strIncludes(knownCities[k], normalizedCity)
               \/ strIncludes(normalizedCity, knownCities[k])

\* isCountry(entityName): the same three steps over knownCountries
isCountry(entityName) ==
  LET normalizedEntity == trim(toLowerCase(entityName))
      entityWords == split(normalizedEntity)
  IN  IF arrIncludes(knownCountries, normalizedEntity) THEN TRUE
      ELSE IF Len(entityWords) > 1
        THEN \E k \in DOMAIN knownCountries :
               LET countryWords == split(knownCountries[k])
               IN  \A w \in DOMAIN entityWords : arrIncludes(countryWords, entityWords[w])
        ELSE \E k \in DOMAIN knownCountries :
               \/ strIncludes(knownCountries[k], normalizedEntity)
               \/ strIncludes(normalizedEntity, knownCountries[k])

Unknown == <<"U","n","k","n","o","w","n">>

\* countryCapitals is an object literal: a lower-case name that Object.prototype defines
\* is found on it by countryCapitals[name], and its value is truthy and no string
InheritedNames ==
  {<<"c","o","n","s","t","r","u","c","t","o","r">>, <<"_","_","p","r","o","t","o","_","_">>}

\* what countryCapitals['constructor'] yields: the function Object, no string of characters
InheritedValue == <<"[Function: Object]">>

\* getCountryCapital(countryName): countryCapitals[name] when truthy (own key or
\* inherited), then the first key (insertion order) containing the name or contained in
\* it, then 'Unknown'
getCountryCapital(countryName) ==
  LET normalizedCountry == trim(toLowerCase(countryName))
      direct  == {i \in DOMAIN countryCapitals : countryCapitals[i][1] = normalizedCountry}
      partial == {i \in DOMAIN countryCapitals :
                    \/ strIncludes(countryCapitals[i][1], normalizedCountry)
                    \/ strIncludes(normalizedCountry, countryCapitals[i][1])}
  IN  IF direct # {} THEN countryCapitals[CHOOSE i \in direct : TRUE][2]
      ELSE IF normalizedCountry \in InheritedNames THEN InheritedValue
      ELSE IF partial # {}
        THEN countryCapitals[CHOOSE i \in partial : \A j \in partial : i <= j][2]
        ELSE Unknown

\* formatCityName(cityName): each space-separated word capitalised, its rest lower-cased
formatCityName(cityName) ==
  LET words == split(cityName)
  IN  join([w \in DOMAIN words |->
              IF words[w] = <<>> THEN <<>>
              ELSE toUpperCase(SubSeq(words[w], 1, 1)) \o
                   toLowerCase(SubSeq(words[w], 2, Len(words[w])))])

-----------------------------------------------------------------------------
(* JavaScript values.  Opaque values (messages, intents, confidences) carry *)
(* a TLA+ string or a number; location values carry a character sequence.  *)

Str(x)    == [t |-> "string",    s |-> x,  n |-> 0]
Num(k)    == [t |-> "number",    s |-> "", n |-> k]
Undefined == [t |-> "undefined", s |-> "", n |-> 0]

\* ToBoolean on an opaque value: '', 0, undefined are falsy
Truthy(v) ==
  CASE v.t = "string" -> v.s # ""
    [] v.t = "number" -> v.n # 0
    [] OTHER          -> FALSE

CStr(cs)   == [t |-> "string",    s |-> cs]
CNumber    == [t |-> "number",    s |-> <<>>]   \* some non-zero number where a string is expected
CUndefined == [t |-> "undefined", s |-> <<>>]
CNull      == [t |-> "null",      s |-> <<>>]

\* ToBoolean on a location value
CTruthy(v) == (v.t = "string" /\ v.s # <<>>) \/ v.t = "number"

-----------------------------------------------------------------------------
(* Values a call returns.  kind: "city" a plain city string, "intent" the   *)
(* plain value of result.intent, "object" an object with the properties in *)
(* fields, "throw" a thrown Error whose message is in error, "boolean" the  *)
(* answer of a lookup in bool, "undefined" the return of addCity, and      *)
(* "function" a value that is no string where a capital is expected.       *)

NoRet ==
  [kind |-> "none", fields |-> {}, city |-> <<>>, intent |-> Undefined,
   confidence |-> Undefined, error |-> "", extractedRaw |-> CNull,
   isValid |-> FALSE, isCountry |-> FALSE, countryDetected |-> <<>>, capital |-> <<>>,
   bool |-> FALSE]

Throw(msg) == [NoRet EXCEPT !.kind = "throw", !.error = msg]

NoReply == [kind |-> "none", city |-> CUndefined, intent |-> Undefined, confidence |-> Undefined]

NoArgs ==
  [message |-> Undefined, availableIntents |-> <<>>, method |-> "", name |-> <<>>,
   options |-> [allowedCities |-> [given |-> FALSE, list |-> <<>>], strictMode |-> FALSE,
                defaultCity |-> CUndefined, includeMetadata |-> FALSE]]

NoObj == [class |-> "none", file |-> "", groqClient |-> FALSE]

KeyRequired    == "Groq API key is required. Please set GROQ_API_KEY in your .env file or pass it to the constructor."
NotInitialized == "Groq client not initialized. Please check your API key and ensure groq-sdk is installed."
NonEmptyString == "User message must be a non-empty string"
InvalidMessage == "Invalid message input"

\* error.message of what the try block can raise around the completion call
FailureKinds == {"transport", "parse", "shape"}
ErrorMessage(kind) ==
  CASE kind = "transport" -> "Connection error."
    [] kind = "parse"     -> "Unexpected token in JSON"
    [] kind = "shape"     -> "Cannot read properties of null"
    [] kind = "city"      -> "result.city.toLowerCase is not a function"

-----------------------------------------------------------------------------
(* IntentExtractor.                                                        *)

\* intents.js, the default vocabulary
weatherIntents ==
  <<"today's weather inquiry", "upcoming week's weather inquiry",
    "upcoming month's weather inquiry">>

\* validatedResult without the membership test: any intent the classifier names is kept
validatedResultAnyIntent(result, validIntents) ==
  LET intent1 == IF ~Truthy(result.intent) THEN Str("undefined") ELSE result.intent
      conf    == IF result.confidence.t # "number" \/ result.confidence.n < 0
                    \/ result.confidence.n > 100
                   THEN Num(50) ELSE result.confidence
  IN  [NoRet EXCEPT !.kind = "object",
                    !.fields = {"intent", "confidence", "timestamp"},
                    !.intent = intent1, !.confidence = conf]

\* the object validateIntentResult leaves behind: intent and confidence forced into range
validatedResult(result, validIntents) ==
  LET allValidIntents == validIntents \o <<"undefined">>
      intent1 == IF ~Truthy(result.intent) THEN Str("undefined") ELSE result.intent
      intent2 == IF intent1.t = "string" /\ arrIncludes(allValidIntents, intent1.s)
                   THEN intent1 ELSE Str("undefined")
      conf    == IF result.confidence.t # "number" \/ result.confidence.n < 0
                    \/ result.confidence.n > 100
                   THEN Num(50) ELSE result.confidence
  IN  [NoRet EXCEPT !.kind = "object",
                    !.fields = {"intent", "confidence", "timestamp"},
                    !.intent = intent2, !.confidence = conf]

\* intent_extractor.js validateIntentResult: returns result.intent
validateIntentResult(result, validIntents) ==
  [NoRet EXCEPT !.kind = "intent", !.intent = validatedResult(result, validIntents).intent]

\* groq.js validateIntentResult: returns the validated object
validateIntentResultGroq(result, validIntents) == validatedResult(result, validIntents)

\* a catch block that throws the error on instead of answering
intentCatchRethrows(message) == Throw(message)

\* the catch block of extractIntent
intentCatch(message) ==
  [NoRet EXCEPT !.kind = "object",
                !.fields = {"intent", "confidence", "error", "originalMessage"},
                !.intent = Str("undefined"), !.confidence = Num(0), !.error = message]

\* const intents = availableIntents.length > 0 ? availableIntents : weatherIntents
intentsOf(availableIntents) ==
  IF Len(availableIntents) > 0 THEN availableIntents ELSE weatherIntents

-----------------------------------------------------------------------------
(* EntityExtractor.extractCityEntity.                                      *)

\* "this city don't exist"
NotExist ==
  <<"t","h","i","s"," ","c","i","t","y"," ","d","o","n","'","t"," ","e","x","i","s","t">>

NoCityFound == <<"n","o","_","c","i","t","y","_","f","o","u","n","d">>

\* options.defaultCity || "this city don't exist"
defaultCityOf(options) ==
  IF CTruthy(options.defaultCity) THEN options.defaultCity.s ELSE NotExist

\* a guard that forgets options.defaultCity
guardResultIgnoresDefault(options) ==
  IF options.includeMetadata
    THEN [NoRet EXCEPT !.kind = "object",
                       !.fields = {"city", "confidence", "error", "extractedRaw",
                                   "isValid", "timestamp"},
                       !.city = NotExist, !.confidence = Num(0),
                       !.error = InvalidMessage, !.extractedRaw = CNull, !.isValid = FALSE]
    ELSE [NoRet EXCEPT !.kind = "city", !.city = NotExist]

\* the input guard's return value
guardResult(options) ==
  IF options.includeMetadata
    THEN [NoRet EXCEPT !.kind = "object",
                       !.fields = {"city", "confidence", "error", "extractedRaw",
                                   "isValid", "timestamp"},
                       !.city = defaultCityOf(options), !.confidence = Num(0),
                       !.error = InvalidMessage, !.extractedRaw = CNull, !.isValid = FALSE]
    ELSE [NoRet EXCEPT !.kind = "city", !.city = defaultCityOf(options)]

\* a catch block that forgets includeMetadata and answers the bare default
cityCatchBare(options, message) ==
  [NoRet EXCEPT !.kind = "city", !.city = defaultCityOf(options)]

\* the catch block of extractCityEntity
cityCatch(options, message) ==
  IF options.includeMetadata
    THEN [NoRet EXCEPT !.kind = "object",
                       !.fields = {"city", "confidence", "error", "extractedRaw",
                                   "isValid", "timestamp"},
                       !.city = defaultCityOf(options), !.confidence = Num(0),
                       !.error = message, !.extractedRaw = CNull, !.isValid = FALSE]
    ELSE [NoRet EXCEPT !.kind = "city", !.city = defaultCityOf(options)]

\* countryResult as an earlier revision had it: a country is reported as not valid
countryResultNotValid(options, extractedCity, confidence) ==
  LET countryName == formatCityName(extractedCity)
      capital     == getCountryCapital(extractedCity)
  IN  IF options.includeMetadata
        THEN [NoRet EXCEPT !.kind = "object",
                           !.fields = {"city", "confidence", "reasoning", "extractedRaw",
                                       "isValid", "isCountry", "countryDetected", "capital",
                                       "allowedCities", "strictMode", "timestamp"},
                           !.city = capital, !.confidence = confidence,
                           !.extractedRaw = CStr(extractedCity), !.isValid = FALSE,
                           !.isCountry = TRUE, !.countryDetected = countryName,
                           !.capital = capital]
        ELSE [NoRet EXCEPT !.kind = "city", !.city = capital]

\* the country branch: the capital is returned at once
countryResult(options, extractedCity, confidence) ==
  LET countryName == formatCityName(extractedCity)
      capital     == getCountryCapital(extractedCity)
  IN  IF options.includeMetadata
        THEN [NoRet EXCEPT !.kind = "object",
                           !.fields = {"city", "confidence", "reasoning", "extractedRaw",
                                       "isValid", "isCountry", "countryDetected", "capital",
                                       "allowedCities", "strictMode", "timestamp"},
                           !.city = capital, !.confidence = confidence,
                           !.extractedRaw = CStr(extractedCity), !.isValid = TRUE,
                           !.isCountry = TRUE, !.countryDetected = countryName,
                           !.capital = capital]
        ELSE [NoRet EXCEPT !.kind = "city", !.city = capital]

\* allowedCities.some(city => city.toLowerCase().trim() === extractedCity)
inAllowedCities(list, extractedCity) ==
  \E i \in DOMAIN list : trim(toLowerCase(list[i])) = extractedCity

\* cityIsValid consulting the registry as well as allowedCities
cityIsValidRegistryToo(options, extractedCity) ==
  IF options.allowedCities.given
    THEN \/ inAllowedCities(options.allowedCities.list, extractedCity)
         \/ validateCity(extractedCity)
    ELSE IF options.strictMode THEN validateCityStrict(extractedCity)
                               ELSE validateCity(extractedCity)

\* cityIsValid without strictMode: the registry is always matched in three steps
cityIsValidNeverStrict(options, extractedCity) ==
  IF options.allowedCities.given
    THEN inAllowedCities(options.allowedCities.list, extractedCity)
    ELSE validateCity(extractedCity)

\* cityIsValid with strictMode tested first: the exact registry match overrides allowedCities
cityIsValidStrictFirst(options, extractedCity) ==
  IF options.strictMode
    THEN validateCityStrict(extractedCity)
    ELSE IF options.allowedCities.given
      THEN inAllowedCities(options.allowedCities.list, extractedCity)
      ELSE validateCity(extractedCity)

\* validation of a candidate that is not a country
cityIsValid(options, extractedCity) ==
  IF options.allowedCities.given
    THEN inAllowedCities(options.allowedCities.list, extractedCity)
    ELSE IF options.strictMode THEN validateCityStrict(extractedCity)
                               ELSE validateCity(extractedCity)

\* cityResult with finalCity assigned outside the isValid test: a rejected candidate
\* is returned formatted
cityResultKeepsCandidate(options, extractedCity, confidence, isValid, finalCity) ==
  LET city == IF CTruthy(extractedCity) /\ extractedCity.s # NoCityFound
                THEN formatCityName(extractedCity.s) ELSE finalCity
  IN  IF options.includeMetadata
        THEN [NoRet EXCEPT !.kind = "object",
                           !.fields = {"city", "confidence", "reasoning", "extractedRaw",
                                       "isValid", "allowedCities", "strictMode", "timestamp"},
                           !.city = city, !.confidence = confidence,
                           !.extractedRaw = extractedCity, !.isValid = isValid]
        ELSE [NoRet EXCEPT !.kind = "city", !.city = city]

\* cityResult reporting isValid for any candidate found, validated or not
cityResultValidWhenFound(options, extractedCity, confidence, isValid, finalCity) ==
  IF options.includeMetadata
    THEN [NoRet EXCEPT !.kind = "object",
                       !.fields = {"city", "confidence", "reasoning", "extractedRaw",
                                   "isValid", "allowedCities", "strictMode", "timestamp"},
                       !.city = finalCity, !.confidence = confidence,
                       !.extractedRaw = extractedCity,
                       !.isValid = (CTruthy(extractedCity) /\ extractedCity.s # NoCityFound)]
    ELSE [NoRet EXCEPT !.kind = "city", !.city = finalCity]

\* the non-country return value
cityResult(options, extractedCity, confidence, isValid, finalCity) ==
  IF options.includeMetadata
    THEN [NoRet EXCEPT !.kind = "object",
                       !.fields = {"city", "confidence", "reasoning", "extractedRaw",
                                   "isValid", "allowedCities", "strictMode", "timestamp"},
                       !.city = finalCity, !.confidence = confidence,
                       !.extractedRaw = extractedCity, !.isValid = isValid]
    ELSE [NoRet EXCEPT !.kind = "city", !.city = finalCity]

\* resolveCity with the two checks in the other order: allowedCities before isCountry
resolveCityAllowedFirst(options, result) ==
  IF result.city.t = "number"
    THEN cityCatch(options, ErrorMessage("city"))
    ELSE
      LET extractedCity == IF CTruthy(result.city)
                             THEN CStr(trim(toLowerCase(result.city.s))) ELSE CNull
          confidence    == IF Truthy(result.confidence) THEN result.confidence ELSE Num(50)
      IN  IF CTruthy(extractedCity) /\ extractedCity.s # NoCityFound
            THEN IF options.allowedCities.given
                      /\ inAllowedCities(options.allowedCities.list, extractedCity.s)
                   THEN cityResult(options, extractedCity, confidence, TRUE,
                                   formatCityName(extractedCity.s))
                   ELSE IF isCountry(extractedCity.s)
                     THEN countryResult(options, extractedCity.s, confidence)
                     ELSE LET isValid == cityIsValid(options, extractedCity.s)
                          IN  cityResult(options, extractedCity, confidence, isValid,
                                         IF isValid THEN formatCityName(extractedCity.s)
                                                    ELSE defaultCityOf(options))
            ELSE cityResult(options, extractedCity, confidence, FALSE, defaultCityOf(options))

\* extractCityEntity from the parsed reply to its return (the try block after the await)
resolveCity(options, result) ==
  IF result.city.t = "number"
    THEN cityCatch(options, ErrorMessage("city"))   \* result.city.toLowerCase is not a function
    ELSE
      LET extractedCity == IF CTruthy(result.city)
                             THEN CStr(trim(toLowerCase(result.city.s))) ELSE CNull
          confidence    == IF Truthy(result.confidence) THEN result.confidence ELSE Num(50)
      IN  IF CTruthy(extractedCity) /\ extractedCity.s # NoCityFound
            THEN IF isCountry(extractedCity.s)
                   THEN countryResult(options, extractedCity.s, confidence)
                   ELSE LET isValid == cityIsValid(options, extractedCity.s)
                        IN  cityResult(options, extractedCity, confidence, isValid,
                                       IF isValid THEN formatCityName(extractedCity.s)
                                                  ELSE defaultCityOf(options))
            ELSE cityResult(options, extractedCity, confidence, FALSE, defaultCityOf(options))

-----------------------------------------------------------------------------
(* Inputs: what callers pass and what the completion service can answer.  *)

\* location strings the extractor may name in result.city
cUnitedArabEmirates == <<"U","n","i","t","e","d"," ","A","r","a","b"," ","E","m","i","r","a","t","e","s">>   \* "United Arab Emirates"
cUAE == <<"U","A","E">>   \* "UAE"
cFrance == <<" ","F","r","a","n","c","e"," ">>   \* " France "
cEgypt == <<"E","g","y","p","t">>   \* "Egypt"
cEmiratesUnited == <<"e","m","i","r","a","t","e","s"," ","u","n","i","t","e","d">>   \* "emirates united"
cRepublic == <<"r","e","p","u","b","l","i","c">>   \* "republic"
cParis == <<"P","a","r","i","s">>   \* "Paris"
cTokyo == <<"t","O","K","Y","O">>   \* "tOKYO"
cLondon == <<"l","o","n","d","o","n">>   \* "london"
cIndianapolis == <<"i","n","d","i","a","n","a","p","o","l","i","s">>   \* "indianapolis"
cMilwaukee == <<"m","i","l","w","a","u","k","e","e">>   \* "milwaukee"
cParisEgypt == <<"p","a","r","i","s"," ","e","g","y","p","t">>   \* "paris egypt"
cAtlantis == <<"A","t","l","a","n","t","i","s">>   \* "Atlantis"
cYork == <<"Y","o","r","k">>   \* "York"
cAngeles == <<"a","n","g","e","l","e","s">>   \* "angeles"
cNewYorkCity == <<"n","e","w"," ","y","o","r","k"," ","c","i","t","y">>   \* "new york city"
cAbuDhabi == <<"A","b","u"," ","D","h","a","b","i">>   \* "Abu Dhabi"
cNoCity == <<"n","o","_","c","i","t","y","_","f","o","u","n","d">>   \* "no_city_found"
cNoCityUpper == <<"N","o","_","C","i","t","y","_","F","o","u","n","d">>   \* "No_City_Found"
cBlank == <<" "," ">>   \* "  "
cGotham == <<"G","o","t","h","a","m">>   \* "Gotham"
cGothamPadded == <<" ","G","O","T","H","A","M"," ">>   \* " GOTHAM "
cConstructor == <<"c","o","n","s","t","r","u","c","t","o","r">>   \* "constructor"
cEszettx == <<"ß","x">>   \* "ßx"
cLosAngelesLoud == <<"l","o","s"," "," ","A","N","G","E","L","E","S">>   \* "los  ANGELES"

Candidates ==
  {cUnitedArabEmirates, cUAE, cFrance, cEgypt, cEmiratesUnited, cRepublic,
   cParis, cTokyo, cLondon, cIndianapolis, cMilwaukee, cParisEgypt,
   cAtlantis, cYork, cAngeles, cNewYorkCity, cAbuDhabi, cNoCity,
   cNoCityUpper, cBlank, cGotham}

\* city names as callers configure them and as results show them
sCairo == <<"C","a","i","r","o">>   \* "Cairo"
sAbuDhabi == <<"A","b","u"," ","D","h","a","b","i">>   \* "Abu Dhabi"
sLondon == <<"L","o","n","d","o","n">>   \* "London"
sAtlantis == <<"A","t","l","a","n","t","i","s">>   \* "Atlantis"
sEgyptPadded == <<" ","E","G","Y","P","T"," ">>   \* " EGYPT "

\* normalized candidates the properties name
nEgypt == <<"e","g","y","p","t">>   \* "egypt"
nUae == <<"u","a","e">>   \* "uae"
nUnitedArabEmirates == <<"u","n","i","t","e","d"," ","a","r","a","b"," ","e","m","i","r","a","t","e","s">>   \* "united arab emirates"
nAtlantis == <<"a","t","l","a","n","t","i","s">>   \* "atlantis"
nParis == <<"p","a","r","i","s">>   \* "paris"
nYork == <<"y","o","r","k">>   \* "york"
nAngeles == <<"a","n","g","e","l","e","s">>   \* "angeles"

\* names a caller may pass to addCity
AddCityNames == {cGotham, cGothamPadded}

\* names a caller may pass to the lookups
LookupNames == Candidates \cup {<<>>, cGothamPadded, cConstructor, cEszettx, cLosAngelesLoud}
nNewYorkCity == <<"n","e","w"," ","y","o","r","k"," ","c","i","t","y">>   \* "new york city"
sNewYorkCity == <<"N","e","w"," ","Y","o","r","k"," ","C","i","t","y">>   \* "New York City"
nAbuDhabi == <<"a","b","u"," ","d","h","a","b","i">>   \* "abu dhabi"
sParis == <<"P","a","r","i","s">>   \* "Paris"
-----------------------------------------------------------------------------
(* The message handler: values.                                            *)

\* the inbound activities the adapter hands to the handler
Activities == {"first", "second"}

\* context.activity.type
ActivityTypes == {"message", "conversationUpdate"}

\* context.activity.text
BotTexts == {Str("What's the weather in Atlantis?"), Str("How's the weather today?"), Str("")}

\* the files that define app.post('/api/messages')
Handlers == {"part_000", "part_001"}

\* what the classifier and the extractor may answer to a message of a turn
BotIntents == {Str("today's weather inquiry"), Str("small talk")}
BotCities == {CStr(cParis), CStr(cEgypt), CStr(cAtlantis), CStr(cNoCity), CUndefined}

\* the content generateGroq returns: a JSON object, or text that is no JSON
Contents == {"json", "text"}

sPublicIp == <<"1","9","6",".","1","3","7",".","4",".","1","6","2">>   \* "196.137.4.162"
sLocal == <<"l","o","c","a","l">>   \* "local"
sUndefined == <<"u","n","d","e","f","i","n","e","d">>   \* "undefined"

NoIntent == [kind |-> "none", intent |-> Undefined]

\* one run of the handler: pc is the await it stands at, calls the external calls in
\* flight, log the steps it has begun and ended, status the response.status of the weather
\* fetch (0 before it), history the messages given to generateGroq
NoTurn ==
  [pc |-> "new", type |-> "", text |-> Undefined, intent |-> NoIntent, entity |-> <<>>,
   location |-> <<>>, status |-> 0, calls |-> {}, log |-> <<>>, history |-> <<>>,
   sent |-> "", error |-> ""]

\* response.ok: the status is in the range 200-299
ok(status) == status >= 200 /\ status <= 299

\* the statuses the weather API answers with
Statuses == {200, 400, 503}

\* sessionManager.addMessage(text): the text goes to the end of sessionManager.messages
addMessage(log, text) == Append(log, text)

\* an error that is swallowed and leaves the run waiting for ever
AbortHangs(turn, message) == [turn EXCEPT !.pc = "hung", !.calls = {}, !.error = message]

\* an error nobody catches ends the run
Abort(turn, message) == [turn EXCEPT !.pc = "aborted", !.calls = {}, !.error = message]

\* `HTTP error! Status: ${response.status}`
HttpError(status) == "HTTP error! Status: " \o ToString(status)
FetchFailed == "fetch failed"
NoJson == "Unexpected token in JSON"


\* messages a caller may pass: a query, the empty string, a number, nothing
Messages == {Str("What's the weather like there?"), Str(""), Num(4200), Undefined}

\* availableIntents a caller may pass: none (the default vocabulary), or a list of its own
IntentLists == {<<>>, <<"greeting", "booking">>}

\* result.intent as the classifier may answer it
RawIntents ==
  {Str("today's weather inquiry"), Str("greeting"), Str("small talk"), Str("undefined"),
   Str(""), Undefined, Num(700)}

\* result.confidence as either service may answer it: 0.95, 0, 1, 5, -1, 'high', missing
RawConfidences == {Num(95), Num(0), Num(100), Num(500), Num(-100), Str("high"), Undefined}

\* result.city as the extractor may answer it
RawCities == {CStr(c) : c \in Candidates} \cup {CStr(<<>>), CUndefined, CNumber}

\* options.allowedCities: not given, an empty list, a list
AllowedCitiesChoices ==
  {[given |-> FALSE, list |-> <<>>],
   [given |-> TRUE,  list |-> <<>>],
   [given |-> TRUE,  list |-> <<sLondon, sEgyptPadded, sAtlantis>>]}

OptionsChoices ==
  [allowedCities : AllowedCitiesChoices, strictMode : BOOLEAN,
   defaultCity : {CUndefined, CStr(sCairo)}, includeMetadata : BOOLEAN]

-----------------------------------------------------------------------------
(* The state machine.                                                      *)

Init ==
  /\ env \in [GROQ_API_KEY : BOOLEAN, sdk : BOOLEAN]
  /\ obj = NoObj
  /\ addedCities = <<>>
  /\ pc = "start"
  /\ args = NoArgs
  /\ reply = NoReply
  /\ ret = NoRet
  /\ extCalls = 0
  /\ handler = "none"
  /\ messages = <<>>
  /\ turns = [a \in Activities |-> NoTurn]

\* new IntentExtractor(groqApiKey): file is the module it was required from
NewIntentExtractor(file, groqApiKey) ==
  /\ pc \in {"start", "idle"}
  /\ IF groqApiKey \/ env.GROQ_API_KEY
       THEN /\ obj' = [class |-> "IntentExtractor", file |-> file, groqClient |-> env.sdk]
            /\ pc' = "idle"
            /\ ret' = NoRet
       ELSE /\ obj' = NoObj
            /\ pc' = "thrown"
            /\ ret' = Throw(KeyRequired)
  /\ addedCities' = <<>>
  /\ UNCHANGED <<env, args, reply, extCalls>>
  /\ UNCHANGED botVars

\* new EntityExtractor(groqApiKey)
NewEntityExtractor(groqApiKey) ==
  /\ pc \in {"start", "idle"}
  /\ IF groqApiKey \/ env.GROQ_API_KEY
       THEN /\ obj' = [class |-> "EntityExtractor", file |-> "intent_extractor.js",
                       groqClient |-> env.sdk]
            /\ addedCities' = <<>>
            /\ pc' = "idle"
            /\ ret' = NoRet
       ELSE /\ obj' = NoObj
            /\ addedCities' = <<>>
            /\ pc' = "thrown"
            /\ ret' = Throw(KeyRequired)
  /\ UNCHANGED <<env, args, reply, extCalls>>
  /\ UNCHANGED botVars

\* extractIntent(userMessage, availableIntents) up to its await
CallExtractIntent(userMessage, availableIntents) ==
  /\ pc = "idle"
  /\ obj.class = "IntentExtractor"
  /\ args' = [NoArgs EXCEPT !.message = userMessage, !.availableIntents = availableIntents]
  /\ reply' = NoReply
  /\ IF ~obj.groqClient
       THEN pc' = "thrown" /\ ret' = Throw(NotInitialized) /\ extCalls' = 0
       ELSE IF ~Truthy(userMessage) \/ userMessage.t # "string"
         THEN pc' = "thrown" /\ ret' = Throw(NonEmptyString) /\ extCalls' = 0
         ELSE pc' = "awaitingIntent" /\ ret' = NoRet /\ extCalls' = 1
  /\ UNCHANGED <<env, obj, addedCities>>
  /\ UNCHANGED botVars

\* the classifier answers a JSON object; extractIntent validates it and returns
ClassifierReplies(intent, confidence) ==
  /\ pc = "awaitingIntent"
  /\ reply' = [NoReply EXCEPT !.kind = "object", !.intent = intent, !.confidence = confidence]
  /\ ret' = IF obj.file = "groq.js"
              THEN validateIntentResultGroq(reply', intentsOf(args.availableIntents))
              ELSE validateIntentResult(reply', intentsOf(args.availableIntents))
  /\ pc' = "returned"
  /\ UNCHANGED <<env, obj, addedCities, args, extCalls>>
  /\ UNCHANGED botVars

\* the request fails, or its content is no JSON object: the catch block answers
ClassifierFails(kind) ==
  /\ pc = "awaitingIntent"
  /\ reply' = [NoReply EXCEPT !.kind = kind]
  /\ ret' = intentCatch(ErrorMessage(kind))
  /\ pc' = "returned"
  /\ UNCHANGED <<env, obj, addedCities, args, extCalls>>
  /\ UNCHANGED botVars

\* extractCityEntity(message, options) up to its await
CallExtractCityEntity(message, options) ==
  /\ pc = "idle"
  /\ obj.class = "EntityExtractor"
  /\ args' = [NoArgs EXCEPT !.message = message, !.options = options]
  /\ reply' = NoReply
  /\ IF ~obj.groqClient
       THEN pc' = "thrown" /\ ret' = Throw(NotInitialized) /\ extCalls' = 0
       ELSE IF ~Truthy(message) \/ message.t # "string"
         THEN pc' = "returned" /\ ret' = guardResult(options) /\ extCalls' = 0
         ELSE pc' = "awaitingCity" /\ ret' = NoRet /\ extCalls' = 1
  /\ UNCHANGED <<env, obj, addedCities>>
  /\ UNCHANGED botVars

\* the extractor answers a JSON object; extractCityEntity resolves it and returns
ExtractorReplies(city, confidence) ==
  /\ pc = "awaitingCity"
  /\ reply' = [NoReply EXCEPT !.kind = "object", !.city = city, !.confidence = confidence]
  /\ ret' = resolveCity(args.options, reply')
  /\ pc' = "returned"
  /\ UNCHANGED <<env, obj, addedCities, args, extCalls>>
  /\ UNCHANGED botVars

\* the request fails, or its content is no JSON object: the catch block answers
ExtractorFails(kind) ==
  /\ pc = "awaitingCity"
  /\ reply' = [NoReply EXCEPT !.kind = kind]
  /\ ret' = cityCatch(args.options, ErrorMessage(kind))
  /\ pc' = "returned"
  /\ UNCHANGED <<env, obj, addedCities, args, extCalls>>
  /\ UNCHANGED botVars

\* a synchronous method of EntityExtractor is called and answers
Answer(method, name, value) ==
  /\ pc = "idle"
  /\ obj.class = "EntityExtractor"
  /\ args' = [NoArgs EXCEPT !.method = method, !.name = name]
  /\ reply' = NoReply
  /\ ret' = value
  /\ pc' = "answered"
  /\ extCalls' = 0
  /\ UNCHANGED <<env, obj>>
  /\ UNCHANGED botVars

\* a validateCity that remembers the names it has accepted
CallValidateCityRemembers(cityName) ==
  /\ Answer("validateCity", cityName,
            [NoRet EXCEPT !.kind = "boolean", !.bool = validateCity(cityName)])
  /\ LET normalizedCity == trim(toLowerCase(cityName))
     IN  addedCities' = IF validateCity(cityName) /\ ~arrIncludes(knownCities, normalizedCity)
                          THEN Append(addedCities, normalizedCity)
                          ELSE addedCities

\* validateCity(cityName)
CallValidateCity(cityName) ==
  /\ Answer("validateCity", cityName,
            [NoRet EXCEPT !.kind = "boolean", !.bool = validateCity(cityName)])
  /\ UNCHANGED addedCities

\* validateCityStrict(cityName)
CallValidateCityStrict(cityName) ==
  /\ Answer("validateCityStrict", cityName,
            [NoRet EXCEPT !.kind = "boolean", !.bool = validateCityStrict(cityName)])
  /\ UNCHANGED addedCities

\* isCountry(entityName)
CallIsCountry(entityName) ==
  /\ Answer("isCountry", entityName,
            [NoRet EXCEPT !.kind = "boolean", !.bool = isCountry(entityName)])
  /\ UNCHANGED addedCities

\* getCountryCapital(countryName)
CallGetCountryCapital(countryName) ==
  /\ Answer("getCountryCapital", countryName,
            LET capital == getCountryCapital(countryName)
            IN  IF capital = InheritedValue
                  THEN [NoRet EXCEPT !.kind = "function"]
                  ELSE [NoRet EXCEPT !.kind = "city", !.city = capital])
  /\ UNCHANGED addedCities

\* formatCityName(cityName)
CallFormatCityName(cityName) ==
  /\ Answer("formatCityName", cityName,
            [NoRet EXCEPT !.kind = "city", !.city = formatCityName(cityName)])
  /\ UNCHANGED addedCities

\* an addCity that stores the name as it was given
AddCityAsGiven(cityName) ==
  /\ Answer("addCity", cityName, [NoRet EXCEPT !.kind = "undefined"])
  /\ addedCities' = IF ~arrIncludes(knownCities, cityName)
                       THEN Append(addedCities, cityName)
                       ELSE addedCities

\* addCity(cityName)
AddCity(cityName) ==
  /\ Answer("addCity", cityName, [NoRet EXCEPT !.kind = "undefined"])
  /\ LET normalizedCity == trim(toLowerCase(cityName))
     IN  addedCities' = IF ~arrIncludes(knownCities, normalizedCity)
                          THEN Append(addedCities, normalizedCity)
                          ELSE addedCities

\* the caller takes the result (or catches the error) and is free to call again
Return ==
  /\ pc \in {"returned", "thrown", "answered"}
  /\ pc' = IF obj.class = "none" THEN "start" ELSE "idle"
  /\ args' = NoArgs
  /\ reply' = NoReply
  /\ ret' = NoRet
  /\ extCalls' = 0
  /\ UNCHANGED <<env, obj, addedCities>>
  /\ UNCHANGED botVars

Next ==
  \/ \E file \in {"intent_extractor.js", "groq.js"}, key \in BOOLEAN :
       NewIntentExtractor(file, key)
  \/ \E key \in BOOLEAN : NewEntityExtractor(key)
  \/ \E m \in Messages, l \in IntentLists : CallExtractIntent(m, l)
  \/ \E i \in RawIntents, c \in RawConfidences : ClassifierReplies(i, c)
  \/ \E k \in FailureKinds : ClassifierFails(k)
  \/ \E m \in Messages, o \in OptionsChoices : CallExtractCityEntity(m, o)
  \/ \E c \in RawCities, k \in RawConfidences : ExtractorReplies(c, k)
  \/ \E k \in FailureKinds : ExtractorFails(k)
  \/ \E n \in LookupNames : CallValidateCity(n)
  \/ \E n \in LookupNames : CallValidateCityStrict(n)
  \/ \E n \in LookupNames : CallIsCountry(n)
  \/ \E n \in LookupNames : CallGetCountryCapital(n)
  \/ \E n \in LookupNames : CallFormatCityName(n)
  \/ \E n \in AddCityNames : AddCity(n)
  \/ Return

Spec == Init /\ [][Next]_vars


-----------------------------------------------------------------------------
(* The message handler, app.post('/api/messages'): one run per inbound     *)
(* activity, cut at its awaits.                                            *)

BotInit ==
  /\ env \in [GROQ_API_KEY : BOOLEAN, sdk : {TRUE}]   \* groq-sdk is required at load time
  /\ handler \in Handlers
  /\ messages = <<>>
  /\ turns = [a \in Activities |-> NoTurn]
  /\ obj = NoObj
  /\ addedCities = <<>>
  /\ pc = "start"
  /\ args = NoArgs
  /\ reply = NoReply
  /\ ret = NoRet
  /\ extCalls = 0

\* an external call of the run has come back
Back(turn, call, step) == [turn EXCEPT !.calls = @ \ {call}, !.log = Append(@, step)]

\* what extractIntent handed back to the handler
IntentOf(value) == [kind |-> value.kind, intent |-> value.intent]

\* part_001's extractEntity: a location, 'local' when the message names none, 'undefined'
\* when the location it names is not valid
extractEntity(result) ==
  LET extracted == IF result.city.t = "string" THEN trim(toLowerCase(result.city.s)) ELSE <<>>
  IN  IF extracted = <<>> \/ extracted = NoCityFound THEN sLocal
      ELSE IF isCountry(extracted) THEN getCountryCapital(extracted)
      ELSE IF validateCity(extracted) THEN formatCityName(extracted)
      ELSE sUndefined

\* new EntityExtractor(); entityExtractor.extractCityEntity(text) / extractEntity(text),
\* up to the await
StartResolve(turn) ==
  [turn EXCEPT !.pc = "resolving", !.calls = @ \cup {"extractor"}, !.log = Append(@, "resolve")]

\* Utils.publicIp(), up to the await
StartLocate(turn) ==
  [turn EXCEPT !.pc = "locating", !.calls = @ \cup {"geolocation"}, !.log = Append(@, "locate")]

\* new ResponseGenerator().generateResponse(intent, entity): getCurrentWeather(location),
\* up to the await
StartFetch(turn) ==
  [turn EXCEPT !.pc = "fetching", !.location = turn.entity, !.calls = @ \cup {"weather"},
               !.log = Append(@, "fetch")]

\* a generateGroq that is given the text of its own message only
StartComposeOwnText(turn) ==
  [turn EXCEPT !.pc = "composing", !.history = <<turn.text>>, !.calls = @ \cup {"composer"},
               !.log = Append(@, "compose")]

\* generateGroq(intent, json), up to the await: the request carries sessionManager.messages
StartCompose(turn) ==
  [turn EXCEPT !.pc = "composing", !.history = messages, !.calls = @ \cup {"composer"},
               !.log = Append(@, "compose")]

\* context.sendActivity(what), up to the await
StartSend(turn, what) ==
  [turn EXCEPT !.pc = "sending", !.sent = what, !.calls = @ \cup {"connector"},
               !.log = Append(@, "send")]

\* part_001 after the entity is final: entity !== 'undefined' ? generateResponse : 'No such city'
FetchOrRefuse(turn) ==
  IF turn.entity # sUndefined THEN StartFetch(turn) ELSE StartSend(turn, "No such city")

\* part_001 without the 'undefined' test: every entity goes to generateResponse
AfterResolveNeverRefuses(turn) ==
  IF handler = "part_000"
    THEN IF turn.entity = NoCityFound THEN StartLocate(turn) ELSE StartFetch(turn)
    ELSE IF turn.entity = sLocal THEN StartLocate(turn) ELSE StartFetch(turn)

\* the handler once the entity is extracted:
\* part_000  entity = entity === 'no_city_found' || undefined ? await Utils.publicIp() : entity
\* part_001  entity = entity === 'local' ? await Utils.publicIp() : entity
AfterResolve(turn) ==
  IF handler = "part_000"
    THEN IF turn.entity = NoCityFound THEN StartLocate(turn) ELSE StartFetch(turn)
    ELSE IF turn.entity = sLocal THEN StartLocate(turn) ELSE FetchOrRefuse(turn)

\* the handler once the public IP is known
AfterLocate(turn) ==
  IF handler = "part_000" THEN StartFetch(turn) ELSE FetchOrRefuse(turn)

\* a handler that starts the extractor together with the classifier
OnMessageFansOut(turn, text) ==
  LET appended == [turn EXCEPT !.type = "message", !.text = text, !.log = <<"append">>]
  IN  IF ~env.GROQ_API_KEY THEN Abort(appended, KeyRequired)
      ELSE IF ~env.sdk THEN Abort(appended, NotInitialized)
      ELSE IF ~Truthy(text) \/ text.t # "string" THEN Abort(appended, NonEmptyString)
      ELSE [appended EXCEPT !.pc = "classifying", !.calls = {"classifier", "extractor"},
                            !.log = Append(@, "classify")]

\* the handler from sessionManager.addMessage(text) to the await of extractIntent
OnMessage(turn, text) ==
  LET appended == [turn EXCEPT !.type = "message", !.text = text, !.log = <<"append">>]
  IN  IF ~env.GROQ_API_KEY THEN Abort(appended, KeyRequired)   \* new IntentExtractor() throws
      ELSE IF ~env.sdk THEN Abort(appended, NotInitialized)
      ELSE IF ~Truthy(text) \/ text.t # "string" THEN Abort(appended, NonEmptyString)
      ELSE [appended EXCEPT !.pc = "classifying", !.calls = {"classifier"},
                            !.log = Append(@, "classify")]

\* a handler that adds the text of every activity, whatever its type
ReceiveEveryType(a, type, text) ==
  /\ turns[a].pc = "new"
  /\ messages' = addMessage(messages, text)
  /\ turns' = [turns EXCEPT ![a] =
                 IF type = "message" THEN OnMessage(@, text)
                                     ELSE [@ EXCEPT !.pc = "done", !.type = type]]
  /\ UNCHANGED <<env, handler, extractorVars>>

\* the adapter runs the handler on an inbound activity
Receive(a, type, text) ==
  /\ turns[a].pc = "new"
  /\ IF type = "message"
       THEN /\ messages' = addMessage(messages, text)
            /\ turns' = [turns EXCEPT ![a] = OnMessage(@, text)]
       ELSE /\ messages' = messages
            /\ turns' = [turns EXCEPT ![a] = [@ EXCEPT !.pc = "done", !.type = type]]
  /\ UNCHANGED <<env, handler, extractorVars>>

\* extractIntent returns the validated intent
ClassifierAnswers(a, intent) ==
  /\ turns[a].pc = "classifying"
  /\ LET result == [NoReply EXCEPT !.kind = "object", !.intent = intent]
         value  == validateIntentResult(result, weatherIntents)
     IN  turns' = [turns EXCEPT ![a] =
                     StartResolve([Back(@, "classifier", "classified")
                                     EXCEPT !.intent = IntentOf(value)])]
  /\ UNCHANGED <<env, handler, messages, extractorVars>>

\* extractIntent catches the failure of its request and returns the error object
ClassifierErrs(a, kind) ==
  /\ turns[a].pc = "classifying"
  /\ turns' = [turns EXCEPT ![a] =
                 StartResolve([Back(@, "classifier", "classified")
                                 EXCEPT !.intent = IntentOf(intentCatch(ErrorMessage(kind)))])]
  /\ UNCHANGED <<env, handler, messages, extractorVars>>

\* the extractor answers: part_000 resolves with extractCityEntity(text) and no options
ExtractorAnswers(a, city) ==
  /\ turns[a].pc = "resolving"
  /\ LET result == [NoReply EXCEPT !.kind = "object", !.city = city]
         entity == IF handler = "part_000" THEN resolveCity(NoArgs.options, result).city
                                           ELSE extractEntity(result)
     IN  turns' = [turns EXCEPT ![a] =
                     AfterResolve([Back(@, "extractor", "resolved") EXCEPT !.entity = entity])]
  /\ UNCHANGED <<env, handler, messages, extractorVars>>

\* the extractor's request fails and the catch block answers
ExtractorErrs(a, kind) ==
  /\ turns[a].pc = "resolving"
  /\ LET entity == IF handler = "part_000"
                     THEN cityCatch(NoArgs.options, ErrorMessage(kind)).city
                     ELSE sUndefined
     IN  turns' = [turns EXCEPT ![a] =
                     AfterResolve([Back(@, "extractor", "resolved") EXCEPT !.entity = entity])]
  /\ UNCHANGED <<env, handler, messages, extractorVars>>

\* api.ipify.org answers the caller's address
GeolocationAnswers(a) ==
  /\ turns[a].pc = "locating"
  /\ turns' = [turns EXCEPT ![a] =
                 AfterLocate([Back(@, "geolocation", "located") EXCEPT !.entity = sPublicIp])]
  /\ UNCHANGED <<env, handler, messages, extractorVars>>

\* a getCurrentWeather that does not test response.ok
WeatherAnswersIgnoresStatus(a, status) ==
  /\ turns[a].pc = "fetching"
  /\ turns' = [turns EXCEPT ![a] =
                 StartCompose([Back(@, "weather", "fetched") EXCEPT !.status = status])]
  /\ UNCHANGED <<env, handler, messages, extractorVars>>

\* getCurrentWeather: a 2xx answer is parsed and generateResponse goes on to generateGroq;
\* any other status throws
WeatherAnswers(a, status) ==
  /\ turns[a].pc = "fetching"
  /\ turns' = [turns EXCEPT ![a] =
                 IF ok(status)
                   THEN StartCompose([Back(@, "weather", "fetched") EXCEPT !.status = status])
                   ELSE Abort([@ EXCEPT !.status = status], HttpError(status))]
  /\ UNCHANGED <<env, handler, messages, extractorVars>>

\* generateGroq returns the content: part_000 sends it, part_001 parses it into a card
ComposerAnswers(a, content) ==
  /\ turns[a].pc = "composing"
  /\ turns' = [turns EXCEPT ![a] =
                 IF handler = "part_000" THEN StartSend(Back(@, "composer", "composed"), "response")
                 ELSE IF content = "json" THEN StartSend(Back(@, "composer", "composed"), "card")
                 ELSE Abort(@, NoJson)]
  /\ UNCHANGED <<env, handler, messages, extractorVars>>

\* a request outside the extractors is rejected: nothing catches it
CallFails(a) ==
  /\ turns[a].pc \in {"locating", "fetching", "composing", "sending"}
  /\ turns' = [turns EXCEPT ![a] = Abort(@, FetchFailed)]
  /\ UNCHANGED <<env, handler, messages, extractorVars>>

\* sendActivity resolves and the handler returns
SendCompletes(a) ==
  /\ turns[a].pc = "sending"
  /\ turns' = [turns EXCEPT ![a] = [Back(@, "connector", "sent") EXCEPT !.pc = "done"]]
  /\ UNCHANGED <<env, handler, messages, extractorVars>>

BotNext ==
  \/ \E a \in Activities, type \in ActivityTypes, text \in BotTexts : Receive(a, type, text)
  \/ \E a \in Activities, i \in BotIntents : ClassifierAnswers(a, i)
  \/ \E a \in Activities, k \in FailureKinds : ClassifierErrs(a, k)
  \/ \E a \in Activities, c \in BotCities : ExtractorAnswers(a, c)
  \/ \E a \in Activities, k \in FailureKinds : ExtractorErrs(a, k)
  \/ \E a \in Activities : GeolocationAnswers(a)
  \/ \E a \in Activities, status \in Statuses : WeatherAnswers(a, status)
  \/ \E a \in Activities, c \in Contents : ComposerAnswers(a, c)
  \/ \E a \in Activities : CallFails(a)
  \/ \E a \in Activities : SendCompletes(a)

BotSpec == BotInit /\ [][BotNext]_vars

\* the external call the run of activity a awaits returns or fails, and the run goes on to
\* its next await or ends
Settles(a) ==
  \/ \E i \in BotIntents : ClassifierAnswers(a, i)
  \/ \E k \in FailureKinds : ClassifierErrs(a, k)
  \/ \E c \in BotCities : ExtractorAnswers(a, c)
  \/ \E k \in FailureKinds : ExtractorErrs(a, k)
  \/ GeolocationAnswers(a)
  \/ \E status \in Statuses : WeatherAnswers(a, status)
  \/ \E c \in Contents : ComposerAnswers(a, c)
  \/ CallFails(a)
  \/ SendCompletes(a)

\* the handler with every external call eventually returning or failing
BotFairSpec == BotSpec /\ \A a \in Activities : WF_vars(Settles(a))
-----------------------------------------------------------------------------
(* Properties.  A returned extractCityEntity call keeps its arguments in   *)
(* args and the parsed answer of the extractor in reply.                   *)

CityReturned == pc = "returned" /\ obj.class = "EntityExtractor"

\* the extractor answered a JSON object whose city is a string
CityAnswered == CityReturned /\ reply.kind = "object" /\ reply.city.t = "string"

\* the normalized candidate: result.city lower-cased and trimmed
Candidate == trim(toLowerCase(reply.city.s))

\* the extractor named a location (not nothing, not the 'no_city_found' marker)
HasCandidate == CityAnswered /\ Candidate # <<>> /\ Candidate # NoCityFound

DefaultOptions ==
  /\ ~args.options.allowedCities.given
  /\ ~args.options.strictMode
  /\ args.options.defaultCity = CUndefined

C2_KnownCityReturnsItself ==
  (/\ HasCandidate
   /\ DefaultOptions
   /\ arrIncludes(knownCities, Candidate)
   /\ ~arrIncludes(knownCountries, Candidate)) =>
    /\ ret.city = formatCityName(Candidate)
    /\ args.options.includeMetadata => (ret.isValid /\ ~ret.isCountry)

\* C3: a candidate that matches the country registry and also equals an entry of
\* options.allowedCities is resolved as a country, never as the allowed city.
C3_CountryBeforeAllowedCities ==
  (/\ HasCandidate
   /\ isCountry(Candidate)
   /\ args.options.allowedCities.given
   /\ inAllowedCities(args.options.allowedCities.list, Candidate)) =>
    /\ ret.city = getCountryCapital(Candidate)
    /\ args.options.includeMetadata =>
         (ret.isCountry /\ "isCountry" \in ret.fields /\ ret.capital = ret.city)

C3_Witness ==
  /\ HasCandidate
  /\ Candidate = nEgypt
  /\ args.options.allowedCities.given
  /\ inAllowedCities(args.options.allowedCities.list, Candidate)
  /\ args.options.includeMetadata
  /\ ret.city = sCairo
  /\ ret.city # formatCityName(Candidate)
  /\ ret.isCountry

\* words of the candidate that are entries of the registry
CountryTokens == {w \in DOMAIN split(Candidate) : arrIncludes(knownCountries, split(Candidate)[w])}
CityTokens    == {w \in DOMAIN split(Candidate) : arrIncludes(knownCities, split(Candidate)[w])}

\* C4: a candidate holding a known country word and a known city word ('paris egypt') is
\* answered by the capital of that country.
C4_CountryTokenBeatsCityToken ==
  (HasCandidate /\ CountryTokens # {} /\ CityTokens # {}) =>
    /\ \E w \in CountryTokens : ret.city = getCountryCapital(split(Candidate)[w])
    /\ args.options.includeMetadata => (ret.isValid /\ ret.isCountry)

InRange(confidence) == confidence.t = "number" /\ confidence.n >= 0 /\ confidence.n <= 100

\* C5: every confidence a call reports lies in [0,1], and a raw confidence that is not a
\* number in [0,1] (5, -1, 'high') is reported as 0.5.
C5_ConfidenceInRange ==
  (pc = "returned" /\ ret.kind = "object") =>
    /\ InRange(ret.confidence)
    /\ (reply.kind = "object" /\ ~InRange(reply.confidence)) => ret.confidence = Num(50)

IntentAnswered == pc = "returned" /\ obj.class = "IntentExtractor" /\ reply.kind = "object"

\* allowedIntents with 'undefined' added
AllowedLabels ==
  {intentsOf(args.availableIntents)[i] : i \in DOMAIN intentsOf(args.availableIntents)}
    \cup {"undefined"}

RawIntentAllowed == reply.intent.t = "string" /\ reply.intent.s \in AllowedLabels

\* C6: the intent validateIntentResult yields is a member of allowedIntents with
\* 'undefined' added: a raw intent inside that set is kept, a missing one or one outside
\* it becomes 'undefined'.
C6_IntentInVocabulary ==
  IntentAnswered =>
    /\ ret.intent.t = "string"
    /\ ret.intent.s \in AllowedLabels
    /\ RawIntentAllowed => ret.intent = reply.intent
    /\ ~RawIntentAllowed => ret.intent = Str("undefined")

\* an answer outside the vocabulary came back as 'undefined'
C6_Witness ==
  /\ IntentAnswered
  /\ reply.intent = Str("small talk")
  /\ ret.intent = Str("undefined")

\* C7: a failed request or an unparsable answer inside extractIntent is returned as
\* {intent: 'undefined', confidence: 0.0, error: message}; extractIntent throws only before
\* it issued any request, and for a non-empty string only for want of a client.
C7_IntentFailureIsCaught ==
  obj.class = "IntentExtractor" =>
    /\ (pc = "returned" /\ reply.kind \in FailureKinds) =>
         /\ ret.kind = "object"
         /\ {"intent", "confidence", "error"} \subseteq ret.fields
         /\ ret.intent = Str("undefined")
         /\ ret.confidence = Num(0)
         /\ ret.error = ErrorMessage(reply.kind)
    /\ pc = "thrown" => (extCalls = 0 /\ reply.kind = "none")
    /\ (pc = "thrown" /\ Truthy(args.message) /\ args.message.t = "string") => ~obj.groqClient
    /\ pc = "returned" => ret.kind # "throw"

C7_Witness ==
  /\ obj.class = "IntentExtractor"
  /\ pc = "returned"
  /\ Truthy(args.message)
  /\ reply.kind = "parse"
  /\ ret.intent = Str("undefined")
  /\ ret.confidence = Num(0)
  /\ ret.error = ErrorMessage("parse")

\* the try block of extractCityEntity raised: the request, the parse, or result.city
CityException ==
  /\ CityReturned
  /\ \/ reply.kind \in FailureKinds
     \/ reply.kind = "object" /\ reply.city.t = "number"

CityExceptionMessage ==
  IF reply.kind \in FailureKinds THEN ErrorMessage(reply.kind) ELSE ErrorMessage("city")

\* the request was made and resolved no location
ResolutionFailed ==
  \/ CityException
  \/ CityReturned /\ reply.kind = "object" /\ reply.city.t \in {"undefined", "null"}
  \/ CityAnswered /\ (Candidate = <<>> \/ Candidate = NoCityFound)
  \/ HasCandidate /\ ~isCountry(Candidate) /\ ~cityIsValid(args.options, Candidate)

\* C8: when resolution fails (no candidate, 'no_city_found', a candidate that fails
\* validation, an exception) the call returns options.defaultCity, or "this city don't
\* exist" when none is given, with isValid false in the metadata and, after an exception,
\* its message in error; 'atlantis' is such a candidate.
C8_FailureReturnsDefault ==
  /\ ResolutionFailed =>
       /\ ret.city = defaultCityOf(args.options)
       /\ CTruthy(args.options.defaultCity) => ret.city = args.options.defaultCity.s
       /\ ~CTruthy(args.options.defaultCity) => ret.city = NotExist
       /\ ~args.options.includeMetadata => ret.kind = "city"
       /\ args.options.includeMetadata =>
            /\ ret.kind = "object"
            /\ "isValid" \in ret.fields
            /\ ~ret.isValid
            /\ CityException => ("error" \in ret.fields /\ ret.error = CityExceptionMessage)
  /\ (HasCandidate /\ Candidate = nAtlantis /\ ~args.options.allowedCities.given
        /\ addedCities = <<>>) => ResolutionFailed

C8_Witness ==
  /\ HasCandidate
  /\ Candidate = nAtlantis
  /\ DefaultOptions
  /\ args.options.includeMetadata
  /\ ret.city = NotExist
  /\ ~ret.isValid

\* the candidate was accepted, as a country or as a city
Resolved == HasCandidate /\ (isCountry(Candidate) \/ cityIsValid(args.options, Candidate))

CityCallDone == obj.class = "EntityExtractor" /\ pc \in {"returned", "thrown"}

\* the message is no string, or the empty string
BadMessage == ~Truthy(args.message) \/ args.message.t # "string"

\* what the input guard answers
GuardAnswer ==
  /\ pc = "returned"
  /\ ret.city = defaultCityOf(args.options)
  /\ ~args.options.includeMetadata => ret.kind = "city"
  /\ args.options.includeMetadata =>
       /\ ret.kind = "object"
       /\ {"city", "confidence", "isValid"} \subseteq ret.fields
       /\ ret.confidence = Num(0)
       /\ ~ret.isValid

AllowedGiven == args.options.allowedCities.given

\* some entry of options.allowedCities, lower-cased and trimmed, equals the candidate
InAllowedList ==
  \E i \in DOMAIN args.options.allowedCities.list :
    trim(toLowerCase(args.options.allowedCities.list[i])) = Candidate

\* C11: when options.allowedCities is given and the candidate is no country, the candidate
\* is valid exactly when it equals some entry of allowedCities lower-cased and trimmed; the
\* registry is not consulted: 'paris', a registry city absent from the list, gives the
\* default, and 'atlantis', no registry city but in the list, gives 'Atlantis'.
C11_AllowedCitiesOnly ==
  (HasCandidate /\ ~isCountry(Candidate) /\ AllowedGiven) =>
    /\ args.options.includeMetadata => (ret.isValid <=> InAllowedList)
    /\ InAllowedList => ret.city = formatCityName(Candidate)
    /\ ~InAllowedList => ret.city = defaultCityOf(args.options)
    /\ Candidate = nParis =>
         (validateCity(Candidate) /\ ~InAllowedList /\ ret.city = defaultCityOf(args.options))
    /\ (Candidate = nAtlantis /\ args.options.allowedCities.list # <<>>) =>
         (~validateCity(Candidate) /\ InAllowedList /\ ret.city = sAtlantis)

\* a registry city that the list does not hold is rejected
C11_Witness ==
  /\ HasCandidate
  /\ Candidate = nParis
  /\ AllowedGiven
  /\ args.options.allowedCities.list # <<>>
  /\ args.options.includeMetadata
  /\ args.options.defaultCity = CUndefined
  /\ ~ret.isValid
  /\ ret.city = NotExist

\* C12: with strictMode and no allowedCities a candidate that is no country is valid
\* exactly when its normalized form is an entry of knownCities; the all-words step and the
\* containment step are skipped: 'york' and 'angeles' are rejected with strictMode and
\* accepted without it.
C12_StrictIsExactMatch ==
  (HasCandidate /\ ~isCountry(Candidate) /\ ~AllowedGiven) =>
    /\ args.options.strictMode =>
         /\ args.options.includeMetadata =>
              (ret.isValid <=> arrIncludes(knownCities, Candidate))
         /\ ret.city = IF arrIncludes(knownCities, Candidate)
                         THEN formatCityName(Candidate)
                         ELSE defaultCityOf(args.options)
    /\ Candidate \in {nYork, nAngeles} =>
         /\ args.options.strictMode => ret.city = defaultCityOf(args.options)
         /\ ~args.options.strictMode => ret.city = formatCityName(Candidate)
         /\ args.options.includeMetadata => (ret.isValid <=> ~args.options.strictMode)

\* 'york', part of 'new york', is rejected by the exact match
C12_Witness ==
  /\ HasCandidate
  /\ Candidate = nYork
  /\ ~AllowedGiven
  /\ args.options.strictMode
  /\ args.options.includeMetadata
  /\ validateCity(Candidate)
  /\ ~ret.isValid
  /\ ret.city = defaultCityOf(args.options)

\* a synchronous method has answered; its argument is in args.name
Answered(method) == pc = "answered" /\ args.method = method

\* registry membership as three steps tried in order, the third open to every candidate
ThreeTiers(known, name) ==
  LET normalized == trim(toLowerCase(name))
      words      == split(normalized)
  IN  \/ arrIncludes(known, normalized)
      \/ /\ Len(words) > 1
         /\ \E k \in DOMAIN known :
              \A w \in DOMAIN words : arrIncludes(split(known[k]), words[w])
      \/ \E k \in DOMAIN known :
           strIncludes(known[k], normalized) \/ strIncludes(normalized, known[k])

\* C13: validateCity and isCountry are true exactly when one of three steps matches:
\* the exact match, for a candidate of two or more words the all-words match, or
\* containment in either direction; a candidate of several words that fails the second
\* step and contains a known entry ('new york city') matches by the third.
C13_ThreeTierMembership ==
  /\ Answered("validateCity") => (ret.bool <=> ThreeTiers(knownCities, args.name))
  /\ Answered("isCountry") => (ret.bool <=> ThreeTiers(knownCountries, args.name))
  /\ (Answered("validateCity") /\ args.name = nNewYorkCity) => ret.bool
  /\ (HasCandidate /\ Candidate = nNewYorkCity /\ DefaultOptions) => ret.city = sNewYorkCity

\* the keys of countryCapitals that contain the name or are contained in it
MatchingKeys(name) ==
  {i \in DOMAIN countryCapitals :
     \/ strIncludes(countryCapitals[i][1], name)
     \/ strIncludes(name, countryCapitals[i][1])}

\* C14: getCountryCapital(name) returns the mapped capital when the normalized name is a
\* key of countryCapitals; otherwise the capital of the first key, in insertion order,
\* that contains the name or is contained in it; and 'Unknown' only when no key matches
\* in either way.
C14_CapitalLookup ==
  Answered("getCountryCapital") =>
    LET name == trim(toLowerCase(args.name))
        keys == {i \in DOMAIN countryCapitals : countryCapitals[i][1] = name}
    IN  /\ ret.kind = "city"
        /\ keys # {} => \E i \in keys : ret.city = countryCapitals[i][2]
        /\ (keys = {} /\ MatchingKeys(name) # {}) =>
             ret.city = countryCapitals[CHOOSE i \in MatchingKeys(name) :
                                          \A j \in MatchingKeys(name) : i <= j][2]
        /\ ret.city = Unknown <=> (keys = {} /\ MatchingKeys(name) = {})

\* C15: under default options the candidates 'abu dhabi' and 'paris' are answered by the
\* city itself, 'Abu Dhabi' and 'Paris': not by the default and not by a capital put in
\* place of a country.
C15_CityCasesOfTheTest ==
  (HasCandidate /\ DefaultOptions /\ Candidate \in {nAbuDhabi, nParis}) =>
    /\ Candidate = nAbuDhabi => ret.city = sAbuDhabi
    /\ Candidate = nParis => ret.city = sParis
    /\ ret.city # NotExist
    /\ ~isCountry(Candidate)
    /\ args.options.includeMetadata => (ret.isValid /\ ~ret.isCountry)

\* the first letter of the word is upper-cased and its other letters lower-cased
TitleCased(word) ==
  word # <<>> =>
    /\ toUpperCase(SubSeq(word, 1, 1)) = SubSeq(word, 1, 1)
    /\ toLowerCase(SubSeq(word, 2, Len(word))) = SubSeq(word, 2, Len(word))

\* C16: formatCityName is idempotent, formatCityName(formatCityName(name)) =
\* formatCityName(name) for every name, and each space-separated word of its result has
\* its first letter upper-cased and the others lower-cased.
C16_FormatIsIdempotent ==
  Answered("formatCityName") =>
    /\ ret.city = formatCityName(args.name)
    /\ formatCityName(ret.city) = ret.city
    /\ \A w \in DOMAIN split(ret.city) : TitleCased(split(ret.city)[w])

\* C17: extractCityEntity returns a plain string on every path when includeMetadata is
\* false, and on every path when it is true an object carrying at least city, confidence,
\* extractedRaw, isValid and timestamp.
C17_ReturnShape ==
  CityReturned =>
    /\ ~args.options.includeMetadata => (ret.kind = "city" /\ ret.fields = {})
    /\ args.options.includeMetadata =>
         /\ ret.kind = "object"
         /\ {"city", "confidence", "extractedRaw", "isValid", "timestamp"} \subseteq ret.fields

\* the catch block answers an object too
C17_Witness ==
  /\ CityReturned
  /\ reply.kind = "parse"
  /\ args.options.includeMetadata
  /\ ret.kind = "object"
  /\ {"city", "confidence", "extractedRaw", "isValid", "timestamp", "error"} \subseteq ret.fields
  /\ ret.error = ErrorMessage("parse")

-----------------------------------------------------------------------------
(* Properties of the message handler, checked under BotSpec.               *)

\* the steps of one run in the order the handler takes them
StepOrder ==
  <<"append", "classify", "classified", "resolve", "resolved", "locate", "located",
    "fetch", "fetched", "compose", "composed", "send", "sent">>

StepIndex(step) == CHOOSE i \in DOMAIN StepOrder : StepOrder[i] = step

\* the steps that begin an external call, and the step that ends each
Begins == {"classify", "resolve", "locate", "fetch", "compose", "send"}
EndOf(step) == StepOrder[StepIndex(step) + 1]

Steps(turn) == {turn.log[i] : i \in DOMAIN turn.log}

\* C18: for each inbound message the handler appends to the context, classifies, resolves
\* the location, fetches the weather, composes and sends, in this order; each external
\* call has come back before the next one starts, and no two external calls of one
\* message are in flight together.
C18_SequentialPipeline ==
  \A a \in Activities :
    LET turn == turns[a]
        log  == turn.log
    IN  /\ Cardinality(turn.calls) <= 1
        /\ \A i \in DOMAIN log : \A j \in DOMAIN log :
             i < j => StepIndex(log[i]) < StepIndex(log[j])
        /\ \A i \in DOMAIN log :
             (log[i] \in Begins /\ i < Len(log)) => log[i + 1] = EndOf(log[i])
        /\ (log # <<>> /\ log[Len(log)] \in Begins /\ turn.pc # "aborted") =>
             Cardinality(turn.calls) = 1
        /\ (log # <<>> /\ log[Len(log)] \notin Begins) => turn.calls = {}
        /\ turn.type = "message" => (log # <<>> /\ log[1] = "append")
        /\ (turn.pc = "done" /\ turn.sent \in {"response", "card"}) =>
             {"append", "classify", "resolve", "fetch", "compose", "send"} \subseteq Steps(turn)

\* one message is through all its steps, the public IP included, while a call of the
\* other message is in flight
C18_Witness ==
  /\ turns["first"].pc = "done"
  /\ turns["first"].sent = "card"
  /\ turns["first"].log = StepOrder
  /\ turns["second"].calls = {"weather"}

\* extractCityEntity has answered the default and the handler has not replaced it
NoValidLocation(turn) ==
  /\ "resolved" \in Steps(turn)
  /\ "located" \notin Steps(turn)
  /\ turn.entity = NotExist

\* C19: whenever the resolution yields no valid location the handler (part_000) puts the
\* caller's public IP in its place before the weather fetch; the geolocation service is
\* called in that case only, and the weather fetch is never issued with the default
\* "this city don't exist".
C19_FallsBackToPublicIp ==
  handler = "part_000" =>
    \A a \in Activities :
      LET turn == turns[a]
      IN  /\ NoValidLocation(turn) => ("locate" \in Steps(turn) /\ "fetch" \notin Steps(turn))
          /\ turn.pc = "locating" => NoValidLocation(turn)
          /\ "fetch" \in Steps(turn) => turn.location # NotExist
          /\ turn.location = sPublicIp => "located" \in Steps(turn)

\* part_001 has resolved no valid location: extractEntity answered 'undefined'
Refused(turn) == "resolved" \in Steps(turn) /\ turn.entity = sUndefined

\* C20: when the resolution yields an invalid location and no fallback applies, the turn
\* (part_001) ends with the reply 'No such city', and neither the weather fetch nor the
\* composition is performed for that message.
C20_NoSuchCity ==
  handler = "part_001" =>
    \A a \in Activities :
      LET turn == turns[a]
      IN  /\ Refused(turn) =>
               /\ turn.sent = "No such city"
               /\ "send" \in Steps(turn)
               /\ Steps(turn) \cap {"locate", "fetch", "compose"} = {}
               /\ turn.location = <<>>
               /\ turn.history = <<>>
               /\ turn.pc \in {"sending", "done", "aborted"}
          /\ turn.sent = "No such city" => Refused(turn)
          /\ (Refused(turn) /\ turn.pc = "done") =>
               turn.log = <<"append", "classify", "classified", "resolve", "resolved",
                            "send", "sent">>

\* the turn of a message naming no valid location has ended with the refusal
C20_Witness ==
  /\ handler = "part_001"
  /\ turns["first"].pc = "done"
  /\ turns["first"].entity = sUndefined
  /\ turns["first"].sent = "No such city"
  /\ "fetch" \notin Steps(turns["first"])
-----------------------------------------------------------------------------
(* Failures, the context and termination of the message handler.           *)

\* the weather API has answered the run with a status outside 200-299
WeatherRefused(turn) == turn.status # 0 /\ ~ok(turn.status)

\* C21: a weather fetch that returns a non-2xx status raises an error that nothing in the
\* pipeline catches: the turn aborts, the composition step is not run and no response
\* activity is sent for that message.
C21_WeatherFailureAborts ==
  \A a \in Activities :
    LET turn == turns[a]
    IN  /\ WeatherRefused(turn) =>
             /\ turn.pc = "aborted"
             /\ turn.error = HttpError(turn.status)
             /\ turn.calls = {}
             /\ Steps(turn) \cap {"fetched", "compose", "composed", "send", "sent"} = {}
             /\ turn.history = <<>>
             /\ turn.sent = ""
        /\ turn.error = HttpError(turn.status) => WeatherRefused(turn)

\* the weather API has answered 400 to the fetch of one message, whose run has ended
\* without a reply, and the other message has its reply
C21_Witness ==
  /\ turns["first"].status = 400
  /\ turns["first"].pc = "aborted"
  /\ "fetch" \in Steps(turns["first"])
  /\ turns["first"].sent = ""
  /\ turns["second"].pc = "done"
  /\ turns["second"].sent \in {"response", "card"}

\* C22: a missing GROQ_API_KEY is detected once at process startup and is fatal there: no
\* inbound message is ever handled by a process without the key, and the error of the
\* missing key is never raised while a message is being handled.
C22_MissingKeyIsFatalAtStartup ==
  \A a \in Activities :
    /\ turns[a].type = "message" => env.GROQ_API_KEY
    /\ turns[a].error # KeyRequired

-----------------------------------------------------------------------------
(* The registry of one extractor, checked under Spec.                      *)

\* the methods of EntityExtractor that only look the registry up
Lookups == {"isCountry", "validateCity", "validateCityStrict", "getCountryCapital",
            "formatCityName"}

\* this step is a call of the synchronous method
Calls(method) == pc = "idle" /\ pc' = "answered" /\ args'.method = method

\* this step belongs to a call of extractCityEntity: its synchronous part or its return
CityCallStep ==
  \/ pc = "idle" /\ obj.class = "EntityExtractor" /\ pc' \in {"awaitingCity", "returned"}
  \/ pc = "idle" /\ obj.class = "EntityExtractor" /\ pc' = "thrown"
       /\ ret'.error = NotInitialized
  \/ pc = "awaitingCity"

\* this step is a constructor, which builds a new object with the initial registry
Constructs == pc \in {"start", "idle"} /\ (pc' = "idle" \/ ret'.error = KeyRequired)

\* C23: isCountry, validateCity, validateCityStrict, getCountryCapital, formatCityName and
\* extractCityEntity leave the registry unchanged; addCity is the only operation that
\* changes the registry of an extractor, and it changes only knownCities (knownCountries
\* and countryCapitals are never assigned after the constructor).
C23_LookupsLeaveTheRegistry ==
  [][/\ (\E m \in Lookups : Calls(m)) => knownCities' = knownCities
     /\ CityCallStep => knownCities' = knownCities
     /\ knownCities' # knownCities =>
          \/ Calls("addCity") /\ Len(knownCities') = Len(knownCities) + 1
               /\ SubSeq(knownCities', 1, Len(knownCities)) = knownCities
          \/ Constructs /\ knownCities' = InitKnownCities]_vars

\* a city was added and a lookup has then answered from the registry holding it
C23_Witness ==
  /\ pc = "answered"
  /\ args.method = "getCountryCapital"
  /\ args.name = cEgypt
  /\ ret.city = sCairo
  /\ Len(knownCities) = Len(InitKnownCities) + 1

-----------------------------------------------------------------------------
(* The shared context of the message handler, checked under BotSpec.       *)

\* the handler starts on an activity of type 'message' in this step
StartsMessage(a) == turns[a].pc = "new" /\ turns'[a].type = "message"

\* the runs that handle an activity of type 'message'
MessageTurns == {a \in Activities : turns[a].type = "message"}

\* C24: the conversation context is append-only and ordered: every inbound activity of
\* type 'message' appends its raw text exactly once, before its classification starts;
\* entries are never removed or reordered; and the context is the sequence of the texts of
\* the handled messages in the order their handling started.
C24_ContextIsAppendOnly ==
  /\ [](/\ Len(messages) = Cardinality(MessageTurns)
        /\ \A a \in MessageTurns :
             /\ \E i \in DOMAIN messages : messages[i] = turns[a].text
             /\ turns[a].log[1] = "append"
             /\ \A i \in DOMAIN turns[a].log : i > 1 => turns[a].log[i] # "append"
        /\ \A a \in Activities : turns[a].calls # {} => a \in MessageTurns)
  /\ [][/\ \A a \in Activities :
             StartsMessage(a) => messages' = Append(messages, turns'[a].text)
        /\ messages' # messages => \E a \in Activities : StartsMessage(a)
        /\ Len(messages') >= Len(messages)
        /\ SubSeq(messages', 1, Len(messages)) = messages]_vars

\* two messages with different texts are handled, the second one starting while the first
\* is being classified, and the context holds the two texts in that order
C24_Witness ==
  /\ turns["first"].text = Str("How's the weather today?")
  /\ turns["second"].text = Str("What's the weather in Atlantis?")
  /\ messages = <<turns["first"].text, turns["second"].text>>
  /\ turns["first"].pc = "classifying"
  /\ turns["second"].pc = "classifying"

-----------------------------------------------------------------------------
(* What extractIntent returns, checked under Spec.                         *)

\* C25: on every path on which extractIntent (intent_extractor.js) returns, successful
\* classification and caught failure alike, the returned value is an intent label: a
\* string that is a member of allowedIntents with 'undefined' added.
C25_ExtractIntentReturnsLabel ==
  (pc = "returned" /\ obj.class = "IntentExtractor" /\ obj.file = "intent_extractor.js") =>
    /\ ret.kind = "intent"
    /\ ret.intent.t = "string"
    /\ ret.intent.s \in AllowedLabels

-----------------------------------------------------------------------------
(* The history given to the composer, checked under BotSpec.               *)

\* the run builds its request to the composer in this step
BuildsComposition(a) == turns[a].pc # "composing" /\ turns'[a].pc = "composing"

\* C26: the context is process-wide, so the history passed to the composition step of one
\* message is exactly the whole shared log at the time its composition call is built:
\* it holds the message's own text and whatever other messages have appended by then, and
\* nothing appended later.
C26_HistoryIsTheSharedLog ==
  /\ [][\A a \in Activities :
          /\ BuildsComposition(a) => (turns'[a].history = messages /\ messages' = messages)
          /\ ~BuildsComposition(a) => turns'[a].history = turns[a].history]_vars
  /\ [](\A a \in Activities :
          /\ "compose" \in Steps(turns[a]) =>
               /\ \E i \in DOMAIN turns[a].history : turns[a].history[i] = turns[a].text
               /\ Len(turns[a].history) <= Len(messages)
               /\ SubSeq(messages, 1, Len(turns[a].history)) = turns[a].history
          /\ "compose" \notin Steps(turns[a]) => turns[a].history = <<>>)

\* the history of the first message ends with the text of the second, appended after the
\* first message's own text
C26_Witness ==
  /\ turns["first"].text = Str("What's the weather in Atlantis?")
  /\ turns["second"].text = Str("How's the weather today?")
  /\ turns["first"].history = <<turns["first"].text, turns["second"].text>>
  /\ turns["first"].pc = "composing"


-----------------------------------------------------------------------------
(* Termination of the message handler, checked under BotFairSpec.          *)

\* the run of the handler on the activity has begun / has ended
Begun(a) == turns[a].pc # "new"
Ended(a) == turns[a].pc \in {"done", "aborted"}

\* how many times the step is in the log of the run
Times(turn, step) == Cardinality({i \in DOMAIN turn.log : turn.log[i] = step})

\* C27: if every external call eventually returns or fails, every message turn eventually
\* terminates, either by sending exactly one reply or by aborting; a run that awaits an
\* external call does not move before that call returns or fails, whatever the runs of
\* other messages do.
C27_EveryTurnEnds ==
  /\ \A a \in Activities : Begun(a) ~> Ended(a)
  /\ [](\A a \in Activities :
          /\ (turns[a].pc = "done" /\ turns[a].type = "message") =>
               /\ Times(turns[a], "send") = 1
               /\ Times(turns[a], "sent") = 1
               /\ turns[a].sent # ""
               /\ turns[a].error = ""
          /\ turns[a].pc = "aborted" =>
               /\ Times(turns[a], "sent") = 0
               /\ turns[a].error # ""
          /\ (Begun(a) /\ ~Ended(a)) => Cardinality(turns[a].calls) = 1)
  /\ [][\A a \in Activities :
          (Begun(a) /\ turns'[a] # turns[a]) =>
            /\ ~Ended(a)
            /\ turns'[a].calls # turns[a].calls
            /\ \A b \in Activities \ {a} : turns'[b] = turns[b]]_vars

\* the classification of the first message has not returned, and the second message,
\* which arrived after it, has its reply
C27_Witness ==
  /\ turns["first"].pc = "classifying"
  /\ turns["first"].calls = {"classifier"}
  /\ turns["second"].pc = "done"
  /\ turns["second"].sent = "response"
  /\ messages = <<turns["first"].text, turns["second"].text>>

-----------------------------------------------------------------------------
(* Countries, added cities and strict mode, checked under Spec.            *)

\* the capitals of the countryCapitals map
Capitals == {countryCapitals[i][2] : i \in DOMAIN countryCapitals}

\* C28: whenever isCountry(candidate) is true, getCountryCapital(candidate) returns a
\* capital of the countryCapitals map and never 'Unknown'; so a country-resolved result of
\* extractCityEntity never has the city 'Unknown', order-independent matches of several
\* words such as 'emirates united' included.
C28_CountryHasCapital ==
  /\ (Answered("getCountryCapital") /\ isCountry(args.name)) =>
       (ret.kind = "city" /\ ret.city \in Capitals /\ ret.city # Unknown)
  /\ (CityReturned /\ HasCandidate /\ isCountry(Candidate)) =>
       (ret.city \in Capitals /\ ret.city # Unknown)

\* the name as the registry stores it: lower-cased and trimmed
Normalized(name) == trim(toLowerCase(name))

\* C29: addCity(name) makes the normalized name a member of knownCities, so that
\* validateCityStrict(name) is true afterwards; a second addCity of the same name, in any
\* letter case, leaves knownCities unchanged; no entry is ever removed; and the effect
\* stays on the instance: a newly constructed extractor has the initial list.
C29_AddCity ==
  /\ [](Answered("addCity") =>
          /\ arrIncludes(knownCities, Normalized(args.name))
          /\ validateCityStrict(args.name)
          /\ validateCityStrict(Normalized(args.name)))
  /\ [](\A i \in DOMAIN addedCities :
          /\ addedCities[i] = Normalized(addedCities[i])
          /\ ~arrIncludes(InitKnownCities, addedCities[i])
          /\ \A j \in DOMAIN addedCities : addedCities[i] = addedCities[j] => i = j)
  /\ [][/\ Calls("addCity") =>
             /\ Len(knownCities') >= Len(knownCities)
             /\ SubSeq(knownCities', 1, Len(knownCities)) = knownCities
             /\ arrIncludes(knownCities, Normalized(args'.name)) =>
                  knownCities' = knownCities
             /\ ~arrIncludes(knownCities, Normalized(args'.name)) =>
                  knownCities' = Append(knownCities, Normalized(args'.name))
        /\ Constructs => knownCities' = InitKnownCities]_vars

\* 'Gotham' was added, and the extractor then finds ' GOTHAM ' by exact match, the list
\* holding the name once
C29_Witness ==
  /\ Answered("validateCityStrict")
  /\ args.name = cGothamPadded
  /\ ret.bool
  /\ addedCities = <<Normalized(cGotham)>>

\* the options of the call with strictMode the other way round
OtherStrictMode == [args.options EXCEPT !.strictMode = ~@]

====
